---- MODULE Spec2Model ----
(***************************************************************************)
(* gigapi-querier-js: the QueryClient (SQL time-predicate extraction,      *)
(* Hive partition resolution with manifest pruning, recursive fallback,    *)
(* statement rewriting) modelled as a state machine over a filesystem      *)
(* tree.                                                                   *)
(*                                                                         *)
(* Time is counted in nanosecond ticks on a reduced scale: NsPerMs ticks   *)
(* per millisecond and MsPerHour milliseconds per hour stand for 10^6 and  *)
(* 3.6*10^6; a day keeps its 24 hours.  A Date object is its milliseconds  *)
(* since the epoch; local calendar getters apply the zone offset tz.       *)
(* Numbers compare as exact integers.                                      *)
(***************************************************************************)
EXTENDS Integers, Sequences, FiniteSets, TLC

VARIABLES fs, tz, copy, connection, req, wire, lp, duck

vars == <<fs, tz, copy, connection, req, wire, lp, duck>>

----------------------------------------------------------------------------
(* Scale of the model *)

NsPerMs == 2
MsPerHour == 2
HoursPerDay == 24
MaxDay == 3

MsPerDay == MsPerHour * HoursPerDay
NsPerHour == NsPerMs * MsPerHour
NsPerDay == NsPerMs * MsPerDay

\* JavaScript null for a time bound
Null == -1

----------------------------------------------------------------------------
(* Filesystem: a function from absolute paths (sequences of names) to     *)
(* nodes.  A name is a record [t, n]: date=<n>, hour=<n>, metadata.json,  *)
(* <n>.parquet, <n>.dat, a plain directory d<n>, a database, a            *)
(* measurement, or the root of a former storage location.                 *)

Nm(t, n) == [t |-> t, n |-> n]
MetaName == Nm("meta", 0)

DataDb == 1
Base(db, m) == <<Nm("db", db), Nm("m", m)>>
OldRoot == <<Nm("old", 0)>>

NoMeta == [parse |-> "none", min_time |-> 0, max_time |-> 0, files |-> <<>>]
DirNode == [kind |-> "dir", meta |-> NoMeta]
FileNode == [kind |-> "file", meta |-> NoMeta]
\* a directory whose entries can be opened by name but not listed (readdir
\* rejects with EACCES)
DeniedDir == [kind |-> "dir", meta |-> [NoMeta EXCEPT !.parse = "denied"]]

\* fs.existsSync(p)
Exists(f, p) == p \in DOMAIN f
IsDir(f, p) == p \in DOMAIN f /\ f[p].kind = "dir"
IsFile(f, p) == p \in DOMAIN f /\ f[p].kind = "file"
\* fs.promises.readdir(p) resolves
Listable(f, p) == IsDir(f, p) /\ f[p].meta.parse # "denied"

\* path.basename(p), path.join(dir, name)
Basename(p) == p[Len(p)]
Join(dir, name) == Append(dir, name)
Parent(p) == SubSeq(p, 1, Len(p) - 1)

\* name.endsWith('.parquet'), name.startsWith('date='), ...
IsParquetName(nm) == nm.t = "pq"
IsDateName(nm) == nm.t = "date"
IsHourName(nm) == nm.t = "hour"

\* the order in which readdir lists the entries of a directory
KindRank(t) ==
  CASE t = "date" -> 1
    [] t = "hour" -> 2
    [] t = "dir" -> 3
    [] t = "meta" -> 4
    [] t = "pq" -> 5
    [] OTHER -> 6
NameRank(nm) == KindRank(nm.t) * 1000 + nm.n

RECURSIVE SortNames(_)
SortNames(S) ==
  IF S = {} THEN <<>>
  ELSE LET x == CHOOSE y \in S : \A z \in S : NameRank(y) <= NameRank(z)
       IN <<x>> \o SortNames(S \ {x})

\* fs.promises.readdir(dirPath): the names of the entries of dirPath
Readdir(f, dirPath) ==
  SortNames({Basename(p) : p \in {q \in DOMAIN f : Len(q) = Len(dirPath) + 1
                                     /\ SubSeq(q, 1, Len(dirPath)) = dirPath}})

\* sequence helpers
RECURSIVE FlatMap(_, _)
FlatMap(Op(_), s) ==
  IF s = <<>> THEN <<>> ELSE Op(Head(s)) \o FlatMap(Op, Tail(s))

Filter(s, Test(_)) == SelectSeq(s, Test)
Range(s) == {s[i] : i \in DOMAIN s}

----------------------------------------------------------------------------
(* Date: new Date(ms) and the local getters *)

\* new Date(ns / 1000000) as milliseconds; new Date(null / 1000000) is the epoch
DateOfNs(ns) == IF ns = Null THEN 0 ELSE ns \div NsPerMs

\* new Date('YYYY-MM-DD') for the directory name date=<day>: midnight UTC
DateOfDirName(nm) == nm.n * MsPerDay

\* getFullYear/getMonth/getDate taken together: the local calendar day
LocalDay(ms, zone) == (ms + zone * MsPerHour) \div MsPerDay
\* getHours
LocalHour(ms, zone) == ((ms + zone * MsPerHour) \div MsPerHour) % HoursPerDay

----------------------------------------------------------------------------
(* Manifest entries and the overlap test *)

\* the path-existence step shared by the Hive resolver and the interval walk:
\* the recorded path, else <directory>/<base name>, else nothing
ResolveEntry(f, dirPath, file) ==
  IF Exists(f, file.path) THEN <<file.path>>
  ELSE LET localPath == Join(dirPath, Basename(file.path))
       IN IF Exists(f, localPath) THEN <<localPath>> ELSE <<>>

\* metadata.max_time < startNs || metadata.min_time > endNs
NoOverlap(metadata, startNs, endNs) ==
  metadata.max_time < startNs \/ metadata.min_time > endNs

\* mutant: the file-level test forgets the upper bound
FileInRangeLowerOnly(file, startNs, endNs) ==
  startNs = Null \/ endNs = Null \/ file.max_time >= startNs

\* startNs === null || endNs === null || (file.max_time >= startNs && file.min_time <= endNs)
FileInRange(file, startNs, endNs) ==
  startNs = Null \/ endNs = Null
    \/ (file.max_time >= startNs /\ file.min_time <= endNs)

\* mutant: neither overlap test is applied
HiveHourFilesUnpruned(f, hourPath, startNs, endNs) ==
  LET metadataPath == Join(hourPath, MetaName)
  IN IF ~Exists(f, metadataPath) \/ f[metadataPath].meta.parse # "ok" THEN <<>>
     ELSE FlatMap(LAMBDA file : ResolveEntry(f, hourPath, file),
                  f[metadataPath].meta.files)

\* the body of the loop over hourDirs: one hour directory's contribution
HiveHourFiles(f, hourPath, startNs, endNs) ==
  LET metadataPath == Join(hourPath, MetaName)
  IN IF ~Exists(f, metadataPath) THEN <<>>
     ELSE LET metadata == f[metadataPath].meta
          IN IF metadata.parse = "bad" THEN <<>>
             ELSE IF startNs # Null /\ endNs # Null /\ NoOverlap(metadata, startNs, endNs)
               THEN <<>>
             ELSE IF metadata.parse = "nofiles" THEN <<>>
             ELSE FlatMap(LAMBDA file :
                            IF FileInRange(file, startNs, endNs)
                              THEN ResolveEntry(f, hourPath, file) ELSE <<>>,
                          metadata.files)

----------------------------------------------------------------------------
(* Directory-level pruning *)

getDateDirectoriesInRange(f, db, m, startDate, endDate, zone) ==
  LET basePath == Base(db, m)
  IN IF ~Exists(f, basePath) THEN <<>>
     ELSE SelectSeq(SelectSeq(Readdir(f, basePath), IsDateName),
            LAMBDA dateDir :
              LET dirDay == LocalDay(DateOfDirName(dateDir), zone)
              IN dirDay >= LocalDay(startDate, zone) /\ dirDay <= LocalDay(endDate, zone))

getHourDirectoriesInRange(f, datePath, startDate, endDate, zone) ==
  IF ~Exists(f, datePath) THEN <<>>
  ELSE LET hourDirs == SelectSeq(Readdir(f, datePath), IsHourName)
           dirDay == LocalDay(DateOfDirName(Basename(datePath)), zone)
           isStart == LocalDay(startDate, zone) = dirDay
           isEnd == LocalDay(endDate, zone) = dirDay
       IN IF isStart /\ isEnd
            THEN SelectSeq(hourDirs, LAMBDA hourDir :
                   hourDir.n >= LocalHour(startDate, zone)
                     /\ hourDir.n <= LocalHour(endDate, zone))
          ELSE IF isStart
            THEN SelectSeq(hourDirs, LAMBDA hourDir : hourDir.n >= LocalHour(startDate, zone))
          ELSE IF isEnd
            THEN SelectSeq(hourDirs, LAMBDA hourDir : hourDir.n <= LocalHour(endDate, zone))
          ELSE hourDirs

\* the hour directories the Hive resolver opens, in order
HiveHourPaths(f, db, m, startDate, endDate, zone) ==
  FlatMap(LAMBDA dateDir :
            LET datePath == Join(Base(db, m), dateDir)
                hourDirs == getHourDirectoriesInRange(f, datePath, startDate, endDate, zone)
            IN [i \in DOMAIN hourDirs |-> Join(datePath, hourDirs[i])],
          getDateDirectoriesInRange(f, db, m, startDate, endDate, zone))

\* mutant: a manifest that cannot be used rejects the whole resolution
HiveThrowsOnBadManifest(f, db, m, startDate, endDate, zone) ==
  \/ \E dateDir \in Range(getDateDirectoriesInRange(f, db, m, startDate, endDate, zone)) :
       ~Listable(f, Join(Base(db, m), dateDir))
  \/ \E hourPath \in Range(HiveHourPaths(f, db, m, startDate, endDate, zone)) :
       /\ Exists(f, Join(hourPath, MetaName))
       /\ f[Join(hourPath, MetaName)].meta.parse # "ok"

\* readdir(datePath) rejects when a date= entry is not a directory or cannot
\* be listed
HiveThrows(f, db, m, startDate, endDate, zone) ==
  \E dateDir \in Range(getDateDirectoriesInRange(f, db, m, startDate, endDate, zone)) :
    ~Listable(f, Join(Base(db, m), dateDir))

findFilesByHiveStructure(f, db, m, startDate, endDate, startNs, endNs, zone) ==
  FlatMap(LAMBDA hourPath : HiveHourFiles(f, hourPath, startNs, endNs),
          HiveHourPaths(f, db, m, startDate, endDate, zone))

----------------------------------------------------------------------------
(* Recursive walks *)

\* the files one directory adds in the interval walk, and whether the walk
\* returns from this directory before descending
WalkPruned(f, dirPath, startNs, endNs) ==
  /\ IsFile(f, Join(dirPath, MetaName))
  /\ f[Join(dirPath, MetaName)].meta.parse # "bad"
  /\ startNs # Null /\ endNs # Null
  /\ NoOverlap(f[Join(dirPath, MetaName)].meta, startNs, endNs)

WalkDirFiles(f, dirPath, startNs, endNs) ==
  IF IsFile(f, Join(dirPath, MetaName))
    THEN LET metadata == f[Join(dirPath, MetaName)].meta
         IN IF metadata.parse # "ok" THEN <<>>
            ELSE FlatMap(LAMBDA file :
                           IF FileInRange(file, startNs, endNs)
                             THEN ResolveEntry(f, dirPath, file) ELSE <<>>,
                         metadata.files)
    ELSE LET names == SelectSeq(Readdir(f, dirPath),
                        LAMBDA nm : IsFile(f, Join(dirPath, nm)) /\ IsParquetName(nm))
         IN [i \in DOMAIN names |-> Join(dirPath, names[i])]

Subdirs(f, dirPath) ==
  LET names == SelectSeq(Readdir(f, dirPath), LAMBDA nm : IsDir(f, Join(dirPath, nm)))
  IN [i \in DOMAIN names |-> Join(dirPath, names[i])]

RECURSIVE findMetadataFilesRecursively(_, _, _, _)
findMetadataFilesRecursively(f, dirPath, startNs, endNs) ==
  IF ~Listable(f, dirPath) THEN <<>>
  ELSE IF WalkPruned(f, dirPath, startNs, endNs) THEN <<>>
  ELSE WalkDirFiles(f, dirPath, startNs, endNs)
         \o FlatMap(LAMBDA sub : findMetadataFilesRecursively(f, sub, startNs, endNs),
                    Subdirs(f, dirPath))

\* mutant: a directory with a manifest is not listed for .parquet files
ScanDirFilesManifestOnly(f, dirPath) ==
  IF IsFile(f, Join(dirPath, MetaName))
    THEN IF f[Join(dirPath, MetaName)].meta.parse = "ok"
           THEN FlatMap(LAMBDA file : IF Exists(f, file.path) THEN <<file.path>> ELSE <<>>,
                        f[Join(dirPath, MetaName)].meta.files)
           ELSE <<>>
    ELSE LET names == SelectSeq(Readdir(f, dirPath),
                        LAMBDA nm : IsFile(f, Join(dirPath, nm)) /\ IsParquetName(nm))
         IN [i \in DOMAIN names |-> Join(dirPath, names[i])]

\* the no-interval scan: the manifest's existing recorded paths, then the
\* directory's own .parquet files
ScanDirFiles(f, dirPath) ==
  LET listed == IF IsFile(f, Join(dirPath, MetaName))
                    /\ f[Join(dirPath, MetaName)].meta.parse = "ok"
                  THEN FlatMap(LAMBDA file :
                                 IF Exists(f, file.path) THEN <<file.path>> ELSE <<>>,
                               f[Join(dirPath, MetaName)].meta.files)
                  ELSE <<>>
      names == SelectSeq(Readdir(f, dirPath),
                 LAMBDA nm : IsFile(f, Join(dirPath, nm)) /\ IsParquetName(nm))
  IN listed \o [i \in DOMAIN names |-> Join(dirPath, names[i])]

RECURSIVE findFilesRecursively(_, _)
findFilesRecursively(f, dirPath) ==
  IF ~Listable(f, dirPath) THEN <<>>
  ELSE ScanDirFiles(f, dirPath)
         \o FlatMap(LAMBDA sub : findFilesRecursively(f, sub), Subdirs(f, dirPath))

findAllFiles(f, db, m) ==
  IF ~Exists(f, Base(db, m)) THEN <<>> ELSE findFilesRecursively(f, Base(db, m))

\* the walk of the debug endpoint: the .parquet files it collects, descending
\* while level < 10
MaxLevel == 10
RECURSIVE findFiles(_, _, _)
findFiles(f, dirPath, level) ==
  IF ~Listable(f, dirPath) THEN <<>>
  ELSE FlatMap(LAMBDA nm :
                 LET fullPath == Join(dirPath, nm)
                 IN IF IsFile(f, fullPath)
                      THEN IF IsParquetName(nm) THEN <<fullPath>> ELSE <<>>
                    ELSE IF IsDir(f, fullPath) /\ level < MaxLevel
                      THEN findFiles(f, fullPath, level + 1)
                    ELSE <<>>,
               Readdir(f, dirPath))

----------------------------------------------------------------------------
(* SQL text as a sequence of tokens [k, s, n]: keywords, identifiers (n is *)
(* the directory the name stands for), comparison operators, quoted        *)
(* literals (n is the milliseconds new Date(text).getTime() yields) and    *)
(* other symbols.                                                          *)

Tok(k, s, n) == [k |-> k, s |-> s, n |-> n]
Kw(s) == Tok("kw", s, 0)
Id(s, n) == Tok("id", s, n)
Op(s) == Tok("op", s, 0)
Lit(ms) == Tok("lit", "", ms)
Sym(s) == Tok("sym", s, 0)

\* \w+
IsWord(t) == t.k \in {"kw", "id"}
\* the unanchored text `time` of the time patterns
IsTime(t) == t.k = "id" /\ t.s \in {"time", "uptime"}

\* the least index at which a pattern matches, 0 when none does
FirstMatch(sql, Matches(_)) ==
  IF \E i \in DOMAIN sql : Matches(i)
    THEN CHOOSE i \in DOMAIN sql : Matches(i) /\ \A j \in 1..(i - 1) : ~Matches(j)
    ELSE 0

\* mutant: FROM alone matches, whatever follows it
FromAtAnything(sql, i) ==
  /\ i + 1 <= Len(sql)
  /\ sql[i] = Kw("FROM")

\* /FROM\s+(?:(\w+)\.)?(\w+)/i
FromAt(sql, i) ==
  /\ i + 1 <= Len(sql)
  /\ sql[i] = Kw("FROM")
  /\ IsWord(sql[i + 1])
FromQualified(sql, i) ==
  /\ i + 3 <= Len(sql)
  /\ sql[i + 2] = Sym(".")
  /\ IsWord(sql[i + 3])

\* /time\s*(>=|>)\s*'([^']+)'/i and its siblings
CmpAt(sql, i, ops) ==
  /\ i + 2 <= Len(sql)
  /\ IsTime(sql[i])
  /\ sql[i + 1].k = "op" /\ sql[i + 1].s \in ops
  /\ sql[i + 2].k = "lit"
BetweenAt(sql, i) ==
  /\ i + 4 <= Len(sql)
  /\ IsTime(sql[i])
  /\ sql[i + 1] = Kw("BETWEEN")
  /\ sql[i + 2].k = "lit"
  /\ sql[i + 3] = Kw("AND")
  /\ sql[i + 4].k = "lit"

\* JavaScript truthiness of a time bound: null and 0 are falsy
Truthy(x) == x # Null /\ x # 0

NoTimeRange ==
  [start |-> Null, end |-> Null, userSpecified |-> FALSE, timeCondition |-> <<>>]

\* the text `time` the code writes into the time condition it rebuilds
TimeWord == Id("time", 0)

\* timeCondition of _extractTimeRange: BETWEEN alone; else the lower bound,
\* then AND the upper bound; an equality replaces both
timeConditionOf(sql) ==
  LET betweenMatch == FirstMatch(sql, LAMBDA i : BetweenAt(sql, i))
      startMatch == FirstMatch(sql, LAMBDA i : CmpAt(sql, i, {">=", ">"}))
      endMatch == FirstMatch(sql, LAMBDA i : CmpAt(sql, i, {"<=", "<"}))
      equalMatch == FirstMatch(sql, LAMBDA i : CmpAt(sql, i, {"="}))
      lower == IF startMatch # 0
                 THEN <<TimeWord, sql[startMatch + 1], sql[startMatch + 2]>> ELSE <<>>
      upper == IF endMatch # 0
                 THEN <<TimeWord, sql[endMatch + 1], sql[endMatch + 2]>> ELSE <<>>
  IN IF betweenMatch # 0
       THEN <<TimeWord, Kw("BETWEEN"), sql[betweenMatch + 2], Kw("AND"), sql[betweenMatch + 4]>>
     ELSE IF equalMatch # 0 THEN <<TimeWord, Op("="), sql[equalMatch + 2]>>
     ELSE IF lower # <<>> /\ upper # <<>> THEN lower \o <<Kw("AND")>> \o upper
     ELSE lower \o upper

\* _extractTimeRange of the first copy (the second copy's is never called)
extractTimeRange(sql, nowMs) ==
  LET betweenMatch == FirstMatch(sql, LAMBDA i : BetweenAt(sql, i))
      startMatch == FirstMatch(sql, LAMBDA i : CmpAt(sql, i, {">=", ">"}))
      endMatch == FirstMatch(sql, LAMBDA i : CmpAt(sql, i, {"<=", "<"}))
      equalMatch == FirstMatch(sql, LAMBDA i : CmpAt(sql, i, {"="}))
      start0 == IF betweenMatch # 0 THEN sql[betweenMatch + 2].n * NsPerMs
                ELSE IF equalMatch # 0 THEN sql[equalMatch + 2].n * NsPerMs
                ELSE IF startMatch # 0 THEN sql[startMatch + 2].n * NsPerMs
                ELSE Null
      end0 == IF betweenMatch # 0 THEN sql[betweenMatch + 4].n * NsPerMs
              ELSE IF equalMatch # 0 THEN sql[equalMatch + 2].n * NsPerMs
              ELSE IF endMatch # 0 THEN sql[endMatch + 2].n * NsPerMs
              ELSE Null
      userSpecifiedTimeCondition ==
        betweenMatch # 0 \/ startMatch # 0 \/ endMatch # 0 \/ equalMatch # 0
  IN IF ~userSpecifiedTimeCondition THEN NoTimeRange
     ELSE IF Truthy(start0) /\ ~Truthy(end0)
       THEN [start |-> start0, end |-> nowMs * NsPerMs, userSpecified |-> TRUE,
             timeCondition |-> timeConditionOf(sql)]
     ELSE IF ~Truthy(start0) /\ Truthy(end0)
       THEN [start |-> 0, end |-> end0, userSpecified |-> TRUE,
             timeCondition |-> timeConditionOf(sql)]
     ELSE [start |-> start0, end |-> end0, userSpecified |-> TRUE,
           timeCondition |-> timeConditionOf(sql)]

----------------------------------------------------------------------------
(* Clause extraction.  A text that ends in white space ends with the token *)
(* WS; elsewhere white space is what separates tokens.                     *)

WS == Sym(" ")
Num(n) == Tok("num", "", n)
Str(x) == Tok("str", x, 0)
Least(S) == CHOOSE x \in S : \A y \in S : x <= y

\* sql.replace(/\s+/g, ' ').trim()
Trim(sql) ==
  IF sql # <<>> /\ sql[Len(sql)] = WS THEN SubSeq(sql, 1, Len(sql) - 1) ELSE sql

\* the first index at which the keyword kw, followed by next when next is
\* given, occurs; 0 when it does not
ClauseAt(sql, kw, next) ==
  LET S == {i \in DOMAIN sql :
              /\ sql[i] = Kw(kw)
              /\ next = "" \/ (i + 1 <= Len(sql) /\ sql[i + 1] = Kw(next))}
  IN IF S = {} THEN 0 ELSE Least(S)

\* KEYWORD\s+(.*?)(?:\s+(?:STOP|...|$)): the tokens from index from up to
\* the first stop keyword or the white space that ends the text; nothing
\* when the clause is absent or neither follows
LazyUpTo(sql, from, stops) ==
  LET S == {j \in from..Len(sql) :
              (sql[j].k = "kw" /\ sql[j].s \in stops) \/ (j = Len(sql) /\ sql[j] = WS)}
  IN IF from = 0 \/ S = {} THEN <<>> ELSE SubSeq(sql, from, Least(S) - 1)

orderByOf(sql) ==
  LET i == ClauseAt(sql, "ORDER", "BY")
  IN LazyUpTo(sql, IF i = 0 THEN 0 ELSE i + 2, {"LIMIT", "GROUP", "HAVING"})
groupByOf(sql) ==
  LET i == ClauseAt(sql, "GROUP", "BY")
  IN LazyUpTo(sql, IF i = 0 THEN 0 ELSE i + 2, {"ORDER", "LIMIT", "HAVING"})
havingOf(sql) ==
  LET i == ClauseAt(sql, "HAVING", "")
  IN LazyUpTo(sql, IF i = 0 THEN 0 ELSE i + 1, {"ORDER", "LIMIT"})
\* /LIMIT\s+(\d+)/
limitOf(sql) ==
  LET S == {i \in DOMAIN sql :
              sql[i] = Kw("LIMIT") /\ i + 1 <= Len(sql) /\ sql[i + 1].k = "num"}
  IN IF S = {} THEN Null ELSE sql[Least(S) + 1].n
\* /SELECT\s+(.*?)\s+FROM/, '*' when it does not match
columnsOf(sql) ==
  LET i == ClauseAt(sql, "SELECT", "")
      S == {j \in DOMAIN sql : j > i + 1 /\ sql[j] = Kw("FROM")}
  IN IF i = 0 \/ S = {} THEN <<Sym("*")>> ELSE SubSeq(sql, i + 1, Least(S) - 1)

IsConnector(t) == t = Kw("AND") \/ t = Kw("OR")

\* the global replace of the time pattern: each time comparison, an
\* `AND time <op> <literal>` that follows it, and a connector after that
RECURSIVE RemoveTimePatterns(_)
RemoveTimePatterns(c) ==
  IF c = <<>> THEN <<>>
  ELSE IF /\ Len(c) >= 3 /\ IsTime(c[1]) /\ c[3].k = "lit"
          /\ (c[2].k = "op" \/ c[2] = Kw("BETWEEN"))
    THEN LET a == IF /\ Len(c) >= 7 /\ c[4] = Kw("AND") /\ IsTime(c[5])
                     /\ c[6].k = "op" /\ c[7].k = "lit"
                    THEN 7 ELSE 3
             b == IF Len(c) > a /\ IsConnector(c[a + 1]) THEN a + 1 ELSE a
         IN RemoveTimePatterns(SubSeq(c, b + 1, Len(c)))
  ELSE <<c[1]>> \o RemoveTimePatterns(Tail(c))

\* .replace(/^\s*(AND|OR)\s+/i, '').replace(/\s+(AND|OR)\s*$/i, '').trim()
CleanConnectors(c) ==
  LET d == IF Len(c) >= 2 /\ IsConnector(c[1]) THEN Tail(c) ELSE c
  IN IF Len(d) >= 2 /\ IsConnector(d[Len(d)]) THEN SubSeq(d, 1, Len(d) - 1) ELSE d

\* _extractWhereConditions of the first copy; the first replace, whose
\* pattern is the time condition without its quotes, matches no quoted text
extractWhereConditions(sql, timeCondition) ==
  LET i == ClauseAt(sql, "WHERE", "")
      conditions == LazyUpTo(sql, IF i = 0 THEN 0 ELSE i + 1, {"GROUP", "ORDER", "LIMIT"})
  IN CleanConnectors(IF timeCondition # <<>> THEN RemoveTimePatterns(conditions)
                     ELSE conditions)

\* whereConditions of the second copy: the text after the first WHERE, cut at
\* each of GROUP BY, ORDER BY, LIMIT, HAVING in turn
whereConditionsSecond(sql) ==
  LET i == ClauseAt(sql, "WHERE", "")
      S == {j \in DOMAIN sql : /\ j > i
                               /\ \/ sql[j] \in {Kw("LIMIT"), Kw("HAVING")}
                                  \/ /\ sql[j] \in {Kw("GROUP"), Kw("ORDER")}
                                     /\ j + 1 <= Len(sql) /\ sql[j + 1] = Kw("BY")}
  IN IF i = 0 THEN <<>>
     ELSE SubSeq(sql, i + 1, IF S = {} THEN Len(sql) ELSE Least(S) - 1)

\* _extractTimeRange of the second copy: the patterns are matched against
\* the WHERE clause, which it cuts out of the text with
\* /\bWHERE\s+(.*?)(?:\s+(?:GROUP\s+BY|ORDER\s+BY|LIMIT|HAVING|$))/i
extractTimeRangeSecond(sql, nowMs) ==
  LET i == ClauseAt(sql, "WHERE", "")
      whereClause == LazyUpTo(sql, IF i = 0 THEN 0 ELSE i + 1,
                              {"GROUP", "ORDER", "LIMIT", "HAVING"})
  IN extractTimeRange(whereClause, nowMs)

\* parseQuery: the FROM match and the time range; which is "first" or "second"
HasFrom(sql) == FirstMatch(sql, LAMBDA i : FromAt(sql, i)) # 0

parseQuery(which, sql, dbName, nowMs) ==
  LET i == FirstMatch(sql, LAMBDA j : FromAt(sql, j))
      qualified == FromQualified(sql, i)
      timeRange == IF which = "first" THEN extractTimeRange(sql, nowMs) ELSE NoTimeRange
      text == IF which = "first" THEN sql ELSE Trim(sql)
  IN [dbName |-> IF qualified THEN sql[i + 1].n ELSE dbName,
      measurement |-> IF qualified THEN sql[i + 3].n ELSE sql[i + 1].n,
      timeRange |-> timeRange,
      columns |-> columnsOf(text),
      whereConditions |-> IF which = "first"
                            THEN extractWhereConditions(sql, timeRange.timeCondition)
                            ELSE whereConditionsSecond(text),
      orderBy |-> orderByOf(text),
      groupBy |-> groupByOf(text),
      having |-> havingOf(text),
      limit |-> limitOf(text)]

----------------------------------------------------------------------------
(* findRelevantFiles: which resolver ran and what it produced *)

\* mutant: an empty Hive result is returned without the interval walk
findRelevantFilesNoFallback(f, dbName, measurement, timeRange, zone) ==
  LET start == timeRange.start
      end == timeRange.end
      startDate == DateOfNs(start)
      endDate == DateOfNs(end)
  IN IF start = Null /\ end = Null
       THEN [path |-> "all", hive |-> <<>>, hourPaths |-> <<>>,
             files |-> findAllFiles(f, dbName, measurement)]
     ELSE IF HiveThrows(f, dbName, measurement, startDate, endDate, zone)
       THEN [path |-> "threw", hive |-> <<>>, hourPaths |-> <<>>, files |-> <<>>]
     ELSE LET relevantFiles == findFilesByHiveStructure(f, dbName, measurement,
                                 startDate, endDate, start, end, zone)
          IN [path |-> "hive", hive |-> relevantFiles,
              hourPaths |-> HiveHourPaths(f, dbName, measurement, startDate, endDate, zone),
              files |-> relevantFiles]

findRelevantFiles(f, dbName, measurement, timeRange, zone) ==
  LET start == timeRange.start
      end == timeRange.end
      startDate == DateOfNs(start)
      endDate == DateOfNs(end)
      basePath == Base(dbName, measurement)
  IN IF start = Null /\ end = Null
       THEN [path |-> "all", hive |-> <<>>, hourPaths |-> <<>>,
             files |-> findAllFiles(f, dbName, measurement)]
     ELSE IF HiveThrows(f, dbName, measurement, startDate, endDate, zone)
       THEN [path |-> "threw", hive |-> <<>>, hourPaths |-> <<>>, files |-> <<>>]
     ELSE LET relevantFiles == findFilesByHiveStructure(f, dbName, measurement,
                                 startDate, endDate, start, end, zone)
              hourPaths == HiveHourPaths(f, dbName, measurement, startDate, endDate, zone)
          IN IF Len(relevantFiles) = 0
               THEN [path |-> "fallback", hive |-> relevantFiles, hourPaths |-> hourPaths,
                     files |-> findMetadataFilesRecursively(f, basePath, start, end)]
               ELSE [path |-> "hive", hive |-> relevantFiles, hourPaths |-> hourPaths,
                     files |-> relevantFiles]

----------------------------------------------------------------------------
(* The statement handed to connection.query *)

\* read_parquet([...files], union_by_name = true); the list itself is kept
\* next to the text
Rel == Tok("rel", "read_parquet", 0)

\* ` WHERE ${whereConditions.filter(...).join(' AND ')}`
JoinConditions(timeCondition, whereConditions) ==
  IF timeCondition # <<>> /\ whereConditions # <<>>
    THEN <<Kw("WHERE")>> \o timeCondition \o <<Kw("AND")>> \o whereConditions
  ELSE IF timeCondition # <<>> \/ whereConditions # <<>>
    THEN <<Kw("WHERE")>> \o timeCondition \o whereConditions
  ELSE <<>>

\* the first copy: the statement is put together from the parsed clauses
ReconstructedText(parsed) ==
  <<Kw("SELECT")>> \o parsed.columns \o <<Kw("FROM"), Rel>>
    \o JoinConditions(parsed.timeRange.timeCondition, parsed.whereConditions)
    \o (IF parsed.groupBy # <<>> THEN <<Kw("GROUP"), Kw("BY")>> \o parsed.groupBy ELSE <<>>)
    \o (IF parsed.having # <<>> THEN <<Kw("HAVING")>> \o parsed.having ELSE <<>>)
    \o (IF parsed.orderBy # <<>> THEN <<Kw("ORDER"), Kw("BY")>> \o parsed.orderBy ELSE <<>>)
    \o (IF parsed.limit # Null THEN <<Kw("LIMIT"), Num(parsed.limit)>> ELSE <<>>)

\* restOfQuery.replace(timestampRegex, "$1'$2'"): a timestamp written without
\* quotes is quoted
QuoteTimestamps(c) ==
  [j \in DOMAIN c |-> IF c[j].k = "ts" THEN Lit(c[j].n) ELSE c[j]]

\* sql.split(/\s+FROM\s+/i)[1]: what stands between the first FROM and the
\* next one, or the end
SecondPart(sql) ==
  LET F == {j \in DOMAIN sql : sql[j] = Kw("FROM")}
      G == F \ {Least(F)}
  IN IF F = {} THEN <<>>
     ELSE SubSeq(sql, Least(F) + 1, IF G = {} THEN Len(sql) ELSE Least(G) - 1)

\* the second copy: the original text with the table name taken out of the
\* part after FROM
SubstitutedText(sql) ==
  LET F == {j \in DOMAIN sql : sql[j] = Kw("FROM")}
      first == SubSeq(sql, 1, Least(F) - 1)
      second == SecondPart(sql)
      i == FirstMatch(sql, LAMBDA j : FromAt(sql, j))
      table == IF FromQualified(sql, i) THEN sql[i + 3] ELSE sql[i + 1]
      T == {j \in DOMAIN second : second[j] = table}
      t == IF T = {} THEN 0 ELSE Least(T)
      from == IF t >= 3 /\ FromQualified(sql, i) /\ second[t - 1] = Sym(".")
                 /\ second[t - 2] = sql[i + 1]
                THEN t - 2 ELSE t
      restOfQuery == Trim(IF t = 0 THEN second
                          ELSE SubSeq(second, 1, from - 1)
                                 \o SubSeq(second, t + 1, Len(second)))
  IN first \o <<Kw("FROM"), Rel>> \o QuoteTimestamps(restOfQuery)

Statement(which, sql, parsed, files) ==
  [files |-> files, sql |-> sql,
   text |-> IF which = "first" THEN ReconstructedText(parsed) ELSE SubstitutedText(sql)]
\* POST /sql hands the caller's text to the engine as it is
RawStatement(sql) == [files |-> <<>>, sql |-> sql, text |-> sql]

----------------------------------------------------------------------------
(* Filesystem trees the model starts from *)

\* milliseconds of day d, hour h, plus k
At(d, h, k) == (d * HoursPerDay + h) * MsPerHour + k
HourLo(d, h) == At(d, h, 0) * NsPerMs
HourHi(d, h) == At(d, h + 1, 0) * NsPerMs - 1
HourMid(d, h) == HourLo(d, h) + NsPerHour \div 2

Measurement == 1
MBase == Base(DataDb, Measurement)
HourDir(d, h) == MBase \o <<Nm("date", d), Nm("hour", h)>>
PlainDir == Join(MBase, Nm("dir", 1))
NestedDir == Join(PlainDir, Nm("dir", 2))

Entry(path, lo, hi) == [path |-> path, min_time |-> lo, max_time |-> hi]
Manifest(lo, hi, files) ==
  [parse |-> "ok", min_time |-> lo, max_time |-> hi, files |-> files]
BadManifest == [parse |-> "bad", min_time |-> 0, max_time |-> 0, files |-> <<>>]

DirAt(p) == p :> DirNode
FileAt(p) == p :> FileNode
MetaAt(dirPath, metadata) ==
  Join(dirPath, MetaName) :> [kind |-> "file", meta |-> metadata]
Pq(dirPath, k) == Join(dirPath, Nm("pq", k))
Dat(dirPath, k) == Join(dirPath, Nm("dat", k))

Roots == DirAt(<<Nm("db", DataDb)>>) @@ DirAt(MBase)

\* what one directory p holds, its manifest declaring [lo, hi]
Contents(c, p, lo, hi) ==
  CASE c = "raw" -> FileAt(Pq(p, 1))
    [] c = "one" ->
         MetaAt(p, Manifest(lo, hi, <<Entry(Pq(p, 1), lo, hi)>>)) @@ FileAt(Pq(p, 1))
    [] c = "split" ->
         MetaAt(p, Manifest(lo, hi, <<Entry(Pq(p, 1), lo, lo + (hi - lo) \div 2),
                                       Entry(Pq(p, 2), lo + (hi - lo) \div 2 + 1, hi)>>))
           @@ FileAt(Pq(p, 1)) @@ FileAt(Pq(p, 2))
    [] c = "moved" ->
         MetaAt(p, Manifest(lo, hi, <<Entry(Pq(OldRoot, 2), lo, hi),
                                       Entry(Pq(OldRoot, 1), lo, hi)>>))
           @@ FileAt(Pq(p, 1))
    [] c = "movedDat" ->
         MetaAt(p, Manifest(lo, hi, <<Entry(Dat(OldRoot, 1), lo, hi)>>))
           @@ FileAt(Dat(p, 1))
    [] c = "remote" ->
         MetaAt(p, Manifest(lo, hi, <<Entry(Pq(OldRoot, 3), lo, hi)>>))
           @@ DirAt(OldRoot) @@ FileAt(Pq(OldRoot, 3))
    [] c = "extra" ->
         MetaAt(p, Manifest(lo, hi, <<Entry(Pq(p, 1), lo, hi)>>))
           @@ FileAt(Pq(p, 1)) @@ FileAt(Pq(p, 2))
    [] c = "wide" ->
         MetaAt(p, Manifest(lo - NsPerHour, hi + NsPerHour,
                            <<Entry(Pq(p, 1), lo - NsPerHour, hi + NsPerHour)>>))
           @@ FileAt(Pq(p, 1))
    [] c = "bad" -> MetaAt(p, BadManifest) @@ FileAt(Pq(p, 1))
    [] c = "nofiles" ->
         MetaAt(p, [parse |-> "nofiles", min_time |-> lo, max_time |-> hi, files |-> <<>>])
           @@ FileAt(Pq(p, 1))
    [] c = "denied" ->
         (p :> DeniedDir)
           @@ MetaAt(p, Manifest(lo, hi, <<Entry(Pq(p, 1), lo, hi)>>)) @@ FileAt(Pq(p, 1))
    [] c = "stale" ->
         MetaAt(p, Manifest(lo - NsPerDay, hi - NsPerDay,
                            <<Entry(<<Nm("pq", 1)>>, lo - NsPerDay, hi - NsPerDay)>>))
           @@ FileAt(Pq(p, 1))
    [] OTHER -> DirAt(p)

\* a Hive partition date=d/hour=h with contents c
Partition(c, d, h) ==
  IF c = "absent" THEN Roots
  ELSE Contents(c, HourDir(d, h), HourLo(d, h), HourHi(d, h))
         @@ DirAt(Join(MBase, Nm("date", d))) @@ DirAt(HourDir(d, h))

\* a directory outside the date=/hour= layout, with one below it
Plain(c, d, h) ==
  IF c = "absent" THEN Roots
  ELSE Contents(c, PlainDir, HourLo(d, h), HourHi(d, h))
         @@ DirAt(PlainDir) @@ DirAt(NestedDir) @@ FileAt(Pq(NestedDir, 4))

FirstContents ==
  {"raw", "one", "split", "moved", "movedDat", "remote", "extra", "wide", "bad", "empty"}
\* contents of the second partition and of the plain directory
OtherContents ==
  {<<"absent", "absent">>, <<"one", "absent">>, <<"split", "absent">>,
   <<"absent", "raw">>, <<"absent", "one">>, <<"one", "one">>}

SparseTrees ==
  {Roots @@ Partition(c1, 1, 14) @@ Partition(c23[1], 2, 9) @@ Plain(c23[2], 1, 14) :
     c1 \in FirstContents, c23 \in OtherContents}

\* every hour of every day 1..MaxDay, each with a one-file manifest
RECURSIVE Merge(_, _)
Merge(F(_), S) ==
  IF S = {} THEN Roots
  ELSE LET x == CHOOSE y \in S : TRUE IN F(x) @@ Merge(F, S \ {x})

GridTree ==
  Merge(LAMBDA dh : Partition("one", dh[1], dh[2]),
        (1..MaxDay) \X (0..(HoursPerDay - 1)))

\* a date= entry that is a plain file, next to a good partition
DateFileTree ==
  Roots @@ Partition("one", 1, 14) @@ FileAt(Join(MBase, Nm("date", 2)))

\* one partition whose manifest records the bare name of its file and times
\* a day before the partition's own
ExampleTree == Roots @@ Partition("stale", 1, 14)

\* a partition or directory that cannot be used, next to good ones
FaultTrees ==
  {Roots @@ Partition("nofiles", 1, 14) @@ Partition("one", 2, 9),
   Roots @@ Partition("denied", 1, 14) @@ Partition("one", 2, 9),
   Roots @@ Partition("denied", 1, 14) @@ Plain("one", 1, 14),
   Roots @@ Partition("nofiles", 1, 14) @@ Plain("denied", 1, 14),
   Roots @@ Partition("one", 1, 14)
     @@ (Join(MBase, Nm("date", 2)) :> DeniedDir) @@ Partition("one", 2, 9)}

\* a chain of directories one level longer than the debug walk's bound, with a
\* file in its last two directories
DeepDir(k) == MBase \o [i \in 1..k |-> Nm("dir", 1)]
DeepTree ==
  Merge(LAMBDA k : DirAt(DeepDir(k)), 1..(MaxLevel + 1))
    @@ FileAt(Pq(DeepDir(MaxLevel), 1)) @@ FileAt(Pq(DeepDir(MaxLevel + 1), 2))

Trees ==
  SparseTrees \cup FaultTrees \cup {GridTree, DateFileTree, ExampleTree, DeepTree, Roots}

----------------------------------------------------------------------------
(* The SQL texts and clock readings the model draws from *)

Zones == {-1, 0, 1}
Copies == {"first", "second"}

Literals == {0, At(1, 14, 0), At(1, 14, 1), At(1, 20, 0), At(2, 9, 0), At(3, 2, 0)}
Nows == {At(2, 0, 0), At(MaxDay, 23, 1)}

Select == <<Kw("SELECT"), Sym("*")>>
FromTable(m) == <<Kw("FROM"), Id("weather", m)>>
Where == <<Kw("WHERE")>>
Time == Id("time", 0)

Queries ==
  {Select \o FromTable(Measurement)}
    \cup {Select \o FromTable(2)}
    \cup {Select, Select \o <<Kw("FROM"), Sym("(")>>}
    \cup {Select \o <<Kw("FROM"), Id("mydb", DataDb), Sym("."), Id("weather", Measurement)>>
            \o Where \o <<Time, Op(">="), Lit(At(1, 14, 0))>>}
    \cup {Select \o FromTable(Measurement) \o Where \o <<Time, Op(o), Lit(a)>> :
            o \in {">=", "<=", "="}, a \in Literals}
    \cup {Select \o FromTable(Measurement) \o Where
            \o <<Time, Kw("BETWEEN"), Lit(ab[1]), Kw("AND"), Lit(ab[2])>> :
            ab \in {x \in Literals \X Literals : x[1] <= x[2]} \cup {<<At(2, 9, 0), At(1, 14, 0)>>}}
    \cup {Select \o FromTable(Measurement) \o Where
            \o <<Time, Op(">"), Lit(ab[1]), Kw("AND"), Time, Op("<"), Lit(ab[2])>> :
            ab \in {<<At(1, 14, 0), At(2, 9, 0)>>, <<At(1, 14, 1), At(3, 2, 0)>>,
                    <<0, At(1, 20, 0)>>}}

----------------------------------------------------------------------------
(* Result rows: JavaScript values.  t is the kind of the value, n its      *)
(* number, kids the entries of an object or, keyed by index, the elements  *)
(* of an array.                                                            *)

Val(t, n, kids) == [t |-> t, n |-> n, kids |-> kids]
Prop(key, val) == [key |-> key, val |-> val]
BigInt(n) == Val("bigint", n, <<>>)
Number(n) == Val("number", n, <<>>)
JsNull == Val("null", 0, <<>>)
Undefined == Val("undefined", 0, <<>>)
\* a Date object; new Date(NaN) is the invalid one
Date(ms) == Val("date", ms, <<>>)
InvalidDate == Date(Null)
Object(entries) == Val("object", 0, entries)
Array(elems) == Val("array", 0, [i \in DOMAIN elems |-> Prop(ToString(i - 1), elems[i])])
\* value.toString() of a BigInt: the string of its decimal digits
DecimalString(n) == Val("decimal", n, <<>>)
\* the string toISOString gives for the instant ms
IsoString(ms) == Val("iso", ms, <<>>)
\* a thrown error, in place of a value
Threw == Val("threw", 0, <<>>)

\* the instants a Date can hold (8.64e15 ms either side of the epoch), at
\* the scale of the model
MaxDateMs == MsPerDay * (MaxDay + 1)
\* new Date(ms).toISOString() throws a RangeError outside of them
DateThrows(ms) == ms = Null \/ ms > MaxDateMs

\* typeof v === 'object' && v !== null
IsObject(v) == v.t \in {"object", "array", "date"}
\* Object.entries(v): a Date has no own enumerable properties
Entries(v) == IF v.t = "date" THEN <<>> ELSE v.kids
\* row[key]
Field(row, key) ==
  LET I == {i \in DOMAIN row.kids : row.kids[i].key = key}
  IN IF I = {} THEN Undefined ELSE row.kids[CHOOSE i \in I : TRUE].val
\* newRow[key] = val
SetField(row, key, val) ==
  IF Field(row, key) = Undefined
    THEN [row EXCEPT !.kids = Append(@, Prop(key, val))]
    ELSE [row EXCEPT !.kids = [i \in DOMAIN @ |->
                                 IF @[i].key = key THEN Prop(key, val) ELSE @[i]]]

\* _postProcessResults, one row: the ISO sibling fields
PostProcessRow(row) ==
  LET timestamp == Field(row, "timestamp")
      time == Field(row, "time")
      withTimestamp ==
        IF timestamp.t = "date"
          THEN SetField(row, "timestamp_iso", IsoString(timestamp.n)) ELSE row
  IN \* 0n is falsy; a RangeError of toISOString is caught and logged
     IF time.t = "bigint" /\ time.n # 0 /\ ~DateThrows(time.n \div NsPerMs)
       THEN SetField(withTimestamp, "time_iso", IsoString(time.n \div NsPerMs))
       ELSE withTimestamp
\* newRow.timestamp.toISOString() stands outside of the try block
PostProcessRowThrows(row) ==
  Field(row, "timestamp").t = "date" /\ DateThrows(Field(row, "timestamp").n)

\* _postProcessResults of the first class: results.map with no try around
\* the row
postProcessResults(results) ==
  IF results.t # "array" \/ results.kids = <<>> THEN results
  ELSE IF \E i \in DOMAIN results.kids : PostProcessRowThrows(results.kids[i].val)
    THEN Threw
  ELSE [results EXCEPT !.kids =
          [i \in DOMAIN @ |-> Prop(@[i].key, PostProcessRow(@[i].val))]]

\* _postProcessResults of the second class: try around the row, the
\* original row on error
postProcessResultsSecond(results) ==
  IF results.t # "array" \/ results.kids = <<>> THEN results
  ELSE [results EXCEPT !.kids =
          [i \in DOMAIN @ |->
             IF PostProcessRowThrows(@[i].val) THEN @[i]
             ELSE LET row == PostProcessRow(@[i].val)
                      ts == Field(row, "__timestamp")
                  IN Prop(@[i].key,
                       IF ts.t = "bigint" /\ ts.n # 0 /\ ~DateThrows(ts.n \div NsPerMs)
                         THEN SetField(row, "__timestamp_iso", IsoString(ts.n \div NsPerMs))
                         ELSE row)]]

RECURSIVE processBigIntInResults(_)
RECURSIVE processBigIntInObject(_)
RECURSIVE ProcessValue(_)
\* the branches on one value of a row or object
ProcessValue(value) ==
  IF value.t = "bigint" THEN DecimalString(value.n)
  ELSE IF value.t = "array" THEN processBigIntInResults(value)
  ELSE IF IsObject(value) THEN processBigIntInObject(value)
  ELSE value
processBigIntInObject(obj) ==
  IF ~IsObject(obj) THEN obj
  ELSE Object([i \in DOMAIN Entries(obj) |->
                 Prop(Entries(obj)[i].key, ProcessValue(Entries(obj)[i].val))])
\* an element that is not an object is returned as it is
processBigIntInResults(results) ==
  IF results.t # "array" THEN results
  ELSE [results EXCEPT !.kids =
          [i \in DOMAIN @ |->
             Prop(@[i].key,
               IF ~IsObject(@[i].val) THEN @[i].val
               ELSE Object([j \in DOMAIN Entries(@[i].val) |->
                              Prop(Entries(@[i].val)[j].key,
                                    ProcessValue(Entries(@[i].val)[j].val))]))]]

\* key.includes('count')
KeyIncludesCount(key) == key \in {"count", "count_star"}
\* the result.map of POST /query: the entries of each row, one level deep
\* (the string-like objects of the engine are not in the rows of the model)
FixRows(results) ==
  [results EXCEPT !.kids =
     [i \in DOMAIN @ |->
        Prop(@[i].key,
          Object([j \in DOMAIN Entries(@[i].val) |->
            LET e == Entries(@[i].val)[j]
            IN Prop(e.key,
                 IF KeyIncludesCount(e.key) /\ e.val = JsNull THEN Number(0)
                 ELSE IF e.val.t = "bigint" THEN DecimalString(e.val.n)
                 ELSE e.val)]))]]

RECURSIVE HasBigInt(_)
\* JSON.stringify throws a TypeError on a BigInt anywhere in the value
HasBigInt(v) ==
  v.t = "bigint" \/ \E i \in DOMAIN v.kids : HasBigInt(v.kids[i].val)

----------------------------------------------------------------------------
(* Line protocol.  A text is a sequence of characters.                     *)

RECURSIVE Split(_, _)
\* text.split(ch)
Split(text, ch) ==
  LET I == {i \in DOMAIN text : text[i] = ch}
  IN IF I = {} THEN <<text>>
     ELSE LET i == CHOOSE i \in I : \A j \in I : i <= j
          IN <<SubSeq(text, 1, i - 1)>> \o Split(SubSeq(text, i + 1, Len(text)), ch)
RECURSIVE TrimText(_)
\* text.trim()
TrimText(text) ==
  IF text = <<>> THEN text
  ELSE IF Head(text) \in {" ", "\n"} THEN TrimText(Tail(text))
  ELSE IF text[Len(text)] \in {" ", "\n"} THEN TrimText(SubSeq(text, 1, Len(text) - 1))
  ELSE text
Digits == {"0", "1", "2", "3", "4", "5", "6", "7", "8", "9"}
DigitValue(c) == CHOOSE d \in 0 .. 9 : ToString(d) = c
RECURSIVE DigitsPrefix(_)
DigitsPrefix(text) ==
  IF text # <<>> /\ Head(text) \in Digits THEN <<Head(text)>> \o DigitsPrefix(Tail(text))
  ELSE <<>>
RECURSIVE DigitsValue(_)
DigitsValue(digits) ==
  IF digits = <<>> THEN 0
  ELSE 10 * DigitsValue(SubSeq(digits, 1, Len(digits) - 1)) + DigitValue(digits[Len(digits)])

\* field values: a number is known by the literal it was read from
LpValue(t, text) == [t |-> t, text |-> text]
NaN == LpValue("NaN", <<>>)
\* parseInt(text): the sign and the leading digits
parseInt(text) ==
  LET sign == IF text # <<>> /\ Head(text) = "-" THEN <<"-">> ELSE <<>>
      digits == DigitsPrefix(SubSeq(text, Len(sign) + 1, Len(text)))
  IN IF digits = <<>> THEN NaN ELSE LpValue("number", sign \o digits)
\* parseFloat(text): the sign, the leading digits and a fraction
parseFloat(text) ==
  LET sign == IF text # <<>> /\ Head(text) = "-" THEN <<"-">> ELSE <<>>
      rest == SubSeq(text, Len(sign) + 1, Len(text))
      whole == DigitsPrefix(rest)
      after == SubSeq(rest, Len(whole) + 1, Len(rest))
      fraction == IF after # <<>> /\ Head(after) = "." THEN DigitsPrefix(Tail(after)) ELSE <<>>
  IN IF whole = <<>> /\ fraction = <<>> THEN NaN
     ELSE LpValue("number", sign \o whole \o (IF fraction = <<>> THEN <<>> ELSE <<".">> \o fraction))

\* the branches of parseLine on one raw field value
DecodeField(rawValue) ==
  IF rawValue # <<>> /\ rawValue[Len(rawValue)] = "i"
    THEN parseInt(SubSeq(rawValue, 1, Len(rawValue) - 1))
  ELSE IF rawValue \in {<<"t">>, <<"T">>, <<"t", "r", "u", "e">>, <<"T", "r", "u", "e">>}
    THEN LpValue("boolean", <<"true">>)
  ELSE IF rawValue \in {<<"f">>, <<"F">>, <<"f", "a", "l", "s", "e">>, <<"F", "a", "l", "s", "e">>}
    THEN LpValue("boolean", <<"false">>)
  ELSE IF rawValue # <<>> /\ Head(rawValue) = "\"" /\ rawValue[Len(rawValue)] = "\""
    \* a lone quote is its own start and end: slice(1, -1) is empty
    THEN LpValue("string", SubSeq(rawValue, 2, Len(rawValue) - 1))
  ELSE parseFloat(rawValue)

NoPoint == [measurement |-> <<>>, tags |-> <<>>, fields |-> <<>>, timestamp |-> Null]
\* fields[key] = value
PutField(fields, key, value) ==
  IF \E i \in DOMAIN fields : fields[i].key = key
    THEN [i \in DOMAIN fields |-> IF fields[i].key = key THEN [key |-> key, value |-> value]
                                  ELSE fields[i]]
    ELSE Append(fields, [key |-> key, value |-> value])
RECURSIVE PutFields(_, _)
PutFields(fields, fieldPairs) ==
  IF fieldPairs = <<>> THEN fields
  ELSE LET pair == Split(Head(fieldPairs), "=")
       IN PutFields(PutField(fields, pair[1], DecodeField(pair[2])), Tail(fieldPairs))

\* parseLine throws: fewer than two parts, a field without "=" (rawValue is
\* undefined), a timestamp BigInt() rejects
parseLineThrows(line) ==
  LET parts == Split(TrimText(line), " ")
  IN \/ Len(parts) < 2
     \/ \E i \in DOMAIN Split(parts[2], ",") : Len(Split(Split(parts[2], ",")[i], "=")) < 2
     \/ Len(parts) > 2 /\ DigitsPrefix(parts[3]) # parts[3]

parseLine(line, nowMs) ==
  LET parts == Split(TrimText(line), " ")
      measurementTagsParts == Split(parts[1], ",")
      tagPairs == [i \in 1 .. Len(measurementTagsParts) - 1 |->
                     Split(measurementTagsParts[i + 1], "=")]
  IN [measurement |-> measurementTagsParts[1],
      tags |-> [i \in DOMAIN tagPairs |-> tagPairs[i]],
      fields |-> PutFields(<<>>, Split(parts[2], ",")),
      timestamp |-> IF Len(parts) > 2 THEN DigitsValue(parts[3]) ELSE nowMs * NsPerMs]

RECURSIVE ParseLines(_, _)
ParseLines(lines, nowMs) ==
  IF lines = <<>> THEN <<>>
  ELSE LET line == Head(lines)
           rest == ParseLines(Tail(lines), nowMs)
       IN IF TrimText(line) = <<>> \/ Head(TrimText(line)) = "#" THEN rest
          ELSE IF parseLineThrows(line) THEN rest
          ELSE <<parseLine(line, nowMs)>> \o rest
\* parse(data)
parse(data, nowMs) == ParseLines(Split(TrimText(data), "\n"), nowMs)

----------------------------------------------------------------------------
(* State *)

\* one call of parse: what the line was written from, the text, the points
IdleLp == [pc |-> "idle", fields |-> <<>>, stamp |-> <<>>, data |-> <<>>, now |-> 0,
           points |-> <<>>]

\* one HTTP exchange, from the engine's answer to the response
IdleWire ==
  [pc |-> "idle", endpoint |-> "none", result |-> Undefined, returned |-> Undefined,
   normalized |-> Undefined, again |-> Undefined, status |-> 0,
   present |-> TRUE, calls |-> 0, raised |-> "none", body |-> "none", error |-> "none"]

NoParsed ==
  [dbName |-> 0, measurement |-> 0, timeRange |-> NoTimeRange, columns |-> <<>>,
   whereConditions |-> <<>>, orderBy |-> <<>>, groupBy |-> <<>>, having |-> <<>>,
   limit |-> Null]
NoFound == [path |-> "none", hive |-> <<>>, hourPaths |-> <<>>, files |-> <<>>]

IdleReq ==
  [pc |-> "idle", sql |-> <<>>, now |-> 0, parsed |-> NoParsed, found |-> NoFound,
   dirRead |-> FALSE, engineCalls |-> <<>>, result |-> "none", error |-> "none"]

\* this.db, and since the last initialize(): the calls of close(), and how
\* often the connection and the database it opened have been closed
NoDuck == [db |-> "null", closeCalls |-> 0, connectionCloses |-> 0, dbCloses |-> 0]
OpenDuck == [db |-> "open", closeCalls |-> 0, connectionCloses |-> 0, dbCloses |-> 0]
\* the counts of closes stop here
MaxCloses == 2

Init ==
  /\ fs \in Trees
  /\ tz \in Zones
  /\ copy \in Copies
  /\ connection = "null"
  /\ req = [r \in {1} |-> IdleReq]
  /\ wire = IdleWire
  /\ lp = IdleLp
  /\ duck = NoDuck

\* mutant: a callback may run while a statement is executing
ThreadAlwaysFree == TRUE

\* connection.query is a synchronous call: while one runs, the single thread
\* runs no other callback
ThreadFree == \A r \in DOMAIN req : req[r].pc # "executing"

\* initialize(): open the database and connect
initialize ==
  /\ ThreadFree
  /\ connection' = "open"
  /\ duck' = OpenDuck
  /\ UNCHANGED <<fs, tz, copy, req, wire, lp>>

\* query(sql, dbName) up to its first await: the connection check and parseQuery
QueryStart(r, sql, nowMs) ==
  /\ ThreadFree
  /\ req[r].pc = "idle"
  /\ req' = [req EXCEPT ![r] =
       IF connection = "null"
         THEN [@ EXCEPT !.pc = "done", !.sql = sql, !.error = "QueryClient not initialized"]
       ELSE IF ~HasFrom(sql)
         THEN [@ EXCEPT !.pc = "done", !.sql = sql,
                        !.error = "Invalid query: FROM clause not found or invalid"]
       ELSE [@ EXCEPT !.pc = "resolving", !.sql = sql, !.now = nowMs,
                      !.parsed = parseQuery(copy, sql, DataDb, nowMs)]]
  /\ UNCHANGED <<fs, tz, copy, connection, wire, lp, duck>>

\* mutant: the descriptor is kept in a field that a later call overwrites
DescriptorOfLatestCall(r) ==
  LET others == {o \in DOMAIN req : o # r /\ req[o].pc \in {"resolving", "resolved"}}
  IN IF others = {} THEN req[r].parsed ELSE req[CHOOSE o \in others : TRUE].parsed

\* const parsed = this.parseQuery(sql, dbName): a local of the call
Descriptor(r) == req[r].parsed

\* await findRelevantFiles(...)
QueryResolve(r) ==
  /\ ThreadFree
  /\ req[r].pc = "resolving"
  /\ req' = [req EXCEPT ![r] =
       [@ EXCEPT !.pc = "resolved", !.dirRead = TRUE,
                 !.found = findRelevantFiles(fs, Descriptor(r).dbName,
                                             Descriptor(r).measurement,
                                             Descriptor(r).timeRange, tz)]]
  /\ UNCHANGED <<fs, tz, copy, connection, wire, lp, duck>>

\* mutant: the empty check is missing
NeverShortCircuits(files) == FALSE

\* if (!files.length) return []
ShortCircuits(files) == Len(files) = 0

\* the rest of query() up to the engine: the empty short-circuit, else the
\* statement is built and connection.query is entered
QueryExecute(r) ==
  /\ ThreadFree
  /\ req[r].pc = "resolved"
  /\ req' = [req EXCEPT ![r] =
       IF ShortCircuits(req[r].found.files)
         THEN [@ EXCEPT !.pc = "done", !.result = "empty"]
       ELSE IF connection = "null"
         THEN [@ EXCEPT !.pc = "done", !.error = "TypeError"]
       ELSE [@ EXCEPT !.pc = "executing",
                      !.engineCalls = Append(@, Statement(copy, req[r].sql, Descriptor(r),
                                                          req[r].found.files))]]
  /\ UNCHANGED <<fs, tz, copy, connection, wire, lp, duck>>

\* connection.query returns rows or throws; the caller's callback ends
EngineReturn(r, outcome) ==
  /\ req[r].pc = "executing"
  /\ req' = [req EXCEPT ![r] =
       IF outcome = "throws"
         THEN [@ EXCEPT !.pc = "done", !.error = "engine"]
         ELSE [@ EXCEPT !.pc = "done", !.result = "rows"]]
  /\ UNCHANGED <<fs, tz, copy, connection, wire, lp, duck>>

Next ==
  \/ initialize
  \/ \E r \in DOMAIN req, sql \in Queries, nowMs \in Nows : QueryStart(r, sql, nowMs)
  \/ \E r \in DOMAIN req : QueryResolve(r)
  \/ \E r \in DOMAIN req : QueryExecute(r)
  \/ \E r \in DOMAIN req, outcome \in {"rows", "throws"} : EngineReturn(r, outcome)

Spec == Init /\ [][Next]_vars

----------------------------------------------------------------------------
(* insert and close next to the queries *)

\* fs.promises.mkdir(path, { recursive: true }) from component k on: missing
\* components are created; a component that is a file makes it reject
RECURSIVE MkdirFrom(_, _, _)
MkdirFrom(f, dirPath, k) ==
  IF k > Len(dirPath) THEN f
  ELSE LET q == SubSeq(dirPath, 1, k)
       IN IF IsFile(f, q) THEN f
          ELSE IF IsDir(f, q) THEN MkdirFrom(f, dirPath, k + 1)
          ELSE MkdirFrom(f @@ DirAt(q), dirPath, k + 1)

\* mutant: the partition's manifest is written as well
mkdirWithManifest(f, dirPath) ==
  LET g == MkdirFrom(f, dirPath, 1)
  IN IF IsDir(g, dirPath)
       THEN MetaAt(dirPath, Manifest(0, 0, <<>>)) @@ g
       ELSE g

mkdir(f, dirPath) == MkdirFrom(f, dirPath, 1)

\* the partition of the current hour: the date from toISOString (UTC), the
\* hour from getHours (local)
InsertDir(db, m, nowMs, zone) ==
  Base(db, m) \o <<Nm("date", nowMs \div MsPerDay), Nm("hour", LocalHour(nowMs, zone))>>

\* insert(dbName, lineProtocolData) with points of one measurement
insert(db, m, nowMs) ==
  /\ ThreadFree
  /\ fs' = mkdir(fs, InsertDir(db, m, nowMs, tz))
  /\ UNCHANGED <<tz, copy, connection, req, wire, lp, duck>>

\* mutant: close() keeps its reference to the connection it has closed
StillReferenced(c) == IF c = "null" THEN "null" ELSE "closed"

\* this.connection = null
Released(c) == "null"

\* close(): the connection, then the database, each if its field is set
close ==
  /\ ThreadFree
  /\ connection' = Released(connection)
  /\ duck' = [db |-> "null",
              closeCalls |-> Least({duck.closeCalls + 1, MaxCloses}),
              connectionCloses |-> IF connection # "null"
                                     THEN Least({duck.connectionCloses + 1, MaxCloses})
                                     ELSE duck.connectionCloses,
              dbCloses |-> IF duck.db # "null"
                             THEN Least({duck.dbCloses + 1, MaxCloses})
                             ELSE duck.dbCloses]
  /\ UNCHANGED <<fs, tz, copy, req, wire, lp>>

OpsTrees ==
  {Roots, Roots @@ Partition("one", 1, 14), Roots @@ Partition("extra", 2, 0),
   DateFileTree, Roots @@ FileAt(HourDir(2, 0)) @@ DirAt(Join(MBase, Nm("date", 2)))}
OpsQueries ==
  {Select \o FromTable(Measurement) \o Where \o <<Time, Op(">="), Lit(At(1, 14, 0))>>}

\* database and measurement the inserted points name
InsertTargets == {<<DataDb, Measurement>>, <<DataDb, 2>>, <<2, Measurement>>}

InitOps ==
  /\ fs \in OpsTrees
  /\ tz \in Zones
  /\ copy \in Copies
  /\ connection = "null"
  /\ req = [r \in {1} |-> IdleReq]
  /\ wire = IdleWire
  /\ lp = IdleLp
  /\ duck = NoDuck

NextOps ==
  \/ initialize
  \/ close
  \/ \E t \in InsertTargets, nowMs \in Nows : insert(t[1], t[2], nowMs)
  \/ \E r \in DOMAIN req, sql \in OpsQueries, nowMs \in Nows : QueryStart(r, sql, nowMs)
  \/ \E r \in DOMAIN req : QueryResolve(r)
  \/ \E r \in DOMAIN req : QueryExecute(r)
  \/ \E r \in DOMAIN req, outcome \in {"rows", "throws"} : EngineReturn(r, outcome)

SpecOps == InitOps /\ [][NextOps]_vars

----------------------------------------------------------------------------
(* Queries with clauses, over a tree in which every query finds files *)

Host == <<Id("host", 0), Op("="), Str("a")>>
Since == <<Time, Op(">="), Lit(At(1, 14, 0))>>
WhereParts ==
  {<<>>,
   Where \o Since,
   Where \o Host,
   Where \o Since \o <<Kw("AND")>> \o Host,
   Where \o Since \o <<Kw("OR")>> \o Host,
   Where \o Host \o <<Kw("AND")>> \o Since,
   Where \o <<Time, Kw("BETWEEN"), Lit(At(1, 14, 0)), Kw("AND"), Lit(At(2, 9, 0))>>
     \o <<Kw("AND")>> \o Host,
   Where \o <<Time, Op(">"), Lit(At(1, 14, 0)), Kw("AND"), Time, Op("<"), Lit(At(2, 9, 1))>>}
GroupBy == <<Kw("GROUP"), Kw("BY"), Id("host", 0)>>
OrderBy == <<Kw("ORDER"), Kw("BY"), Id("host", 0)>>
TailParts ==
  {<<>>, GroupBy, GroupBy \o <<Kw("HAVING"), Id("n", 0), Op(">"), Num(1)>>,
   OrderBy, <<Kw("LIMIT"), Num(10)>>, GroupBy \o OrderBy \o <<Kw("LIMIT"), Num(10)>>}
Endings == {<<>>, <<WS>>}

RewriteQueries ==
  {Select \o FromTable(Measurement) \o w \o t \o e :
     w \in WhereParts, t \in TailParts, e \in Endings}
    \cup {Select \o FromTable(Measurement) \o Where
            \o <<Id("host", 0), Kw("IN"), Sym("("), Kw("SELECT"), Id("host", 0),
                 Kw("FROM"), Id("hosts", 2), Sym(")")>>,
          <<Kw("SELECT"), Kw("EXTRACT"), Sym("("), Id("hour", 0), Kw("FROM"), Time, Sym(")")>>
            \o FromTable(Measurement) \o Where \o Host \o <<WS>>,
          Select \o <<Kw("FROM"), Id("mydb", DataDb), Sym("."), Id("weather", Measurement)>>
            \o Where \o Host \o <<WS>>,
          Select \o FromTable(Measurement) \o Where
            \o <<Time, Op(">="), Tok("ts", "", At(1, 14, 0))>>}

InitRewrite ==
  /\ fs = Roots @@ Partition("one", 1, 14) @@ Partition("one", 2, 9)
  /\ tz = 0
  /\ copy \in Copies
  /\ connection = "null"
  /\ req = [r \in {1} |-> IdleReq]
  /\ wire = IdleWire
  /\ lp = IdleLp
  /\ duck = NoDuck

NextRewrite ==
  \/ initialize
  \/ \E r \in DOMAIN req, sql \in RewriteQueries : QueryStart(r, sql, At(MaxDay, 23, 1))
  \/ \E r \in DOMAIN req : QueryResolve(r)
  \/ \E r \in DOMAIN req : QueryExecute(r)
  \/ \E r \in DOMAIN req, outcome \in {"rows", "throws"} : EngineReturn(r, outcome)

SpecRewrite == InitRewrite /\ [][NextRewrite]_vars

----------------------------------------------------------------------------
(* Two requests in flight on one process: POST /query and POST /sql *)

ConcTrees ==
  {Roots @@ Partition("one", 1, 14) @@ Partition("split", 2, 9),
   Roots @@ Partition("moved", 1, 14) @@ Plain("raw", 1, 14),
   Roots}
ConcQueries ==
  {Select \o FromTable(Measurement),
   Select \o FromTable(Measurement) \o Where \o <<Time, Op(">="), Lit(At(2, 9, 0))>>,
   Select \o FromTable(Measurement) \o Where
     \o <<Time, Kw("BETWEEN"), Lit(At(1, 14, 0)), Kw("AND"), Lit(At(1, 14, 1))>>,
   Select}
RawStatements == {Select \o <<Kw("FROM"), Id("t", 0)>>}

\* POST /sql: queryClient.connection.query(params.sql), no resolution
SqlRequest(r, sql) ==
  /\ ThreadFree
  /\ req[r].pc = "idle"
  /\ req' = [req EXCEPT ![r] =
       IF connection = "null"
         THEN [@ EXCEPT !.pc = "done", !.sql = sql, !.error = "TypeError"]
         ELSE [@ EXCEPT !.pc = "executing", !.sql = sql,
                        !.engineCalls = Append(@, RawStatement(sql))]]
  /\ UNCHANGED <<fs, tz, copy, connection, wire, lp, duck>>

InitConc ==
  /\ fs \in ConcTrees
  /\ tz = 0
  /\ copy \in Copies
  /\ connection = "null"
  /\ req = [r \in {1, 2} |-> IdleReq]
  /\ wire = IdleWire
  /\ lp = IdleLp
  /\ duck = NoDuck

NextConc ==
  \/ initialize
  \/ \E r \in DOMAIN req, sql \in ConcQueries : QueryStart(r, sql, At(MaxDay, 23, 1))
  \/ \E r \in DOMAIN req, sql \in RawStatements : SqlRequest(r, sql)
  \/ \E r \in DOMAIN req : QueryResolve(r)
  \/ \E r \in DOMAIN req : QueryExecute(r)
  \/ \E r \in DOMAIN req, outcome \in {"rows", "throws"} : EngineReturn(r, outcome)

SpecConc == InitConc /\ [][NextConc]_vars

----------------------------------------------------------------------------
(* Vocabulary of the properties *)

Resolved(r) == req[r].pc \in {"resolved", "done"} /\ req[r].found.path # "none"
Start(r) == req[r].parsed.timeRange.start
End(r) == req[r].parsed.timeRange.end
Bounded(r) == Start(r) # Null /\ End(r) # Null
ReqBase(r) == Base(req[r].parsed.dbName, req[r].parsed.measurement)
Under(p, base) == Len(p) > Len(base) /\ SubSeq(p, 1, Len(base)) = base

\* directories of the tree that hold a readable manifest
ManifestOf(d) == fs[Join(d, MetaName)].meta
ManifestDirs ==
  {Parent(p) : p \in {q \in DOMAIN fs : Basename(q) = MetaName /\ fs[q].meta.parse = "ok"}}

Overlaps(x, lo, hi) == ~(x.max_time < lo \/ x.min_time > hi)
OwnOverlaps(x, lo, hi) == x.max_time >= lo /\ x.min_time <= hi

\* where an entry's file is: its recorded path, else under its base name
EntryPaths(d, e) ==
  IF e.path \in DOMAIN fs THEN {e.path}
  ELSE IF Join(d, Basename(e.path)) \in DOMAIN fs THEN {Join(d, Basename(e.path))}
  ELSE {}

\* d and the directories from the measurement directory down to it can be listed
Listed(r, d) ==
  \A k \in Len(ReqBase(r))..Len(d) : Listable(fs, SubSeq(d, 1, k))

\* the interval walk reaches d: no directory above it holds a manifest that
\* misses the interval
Reached(r, d) ==
  /\ d = ReqBase(r) \/ Under(d, ReqBase(r))
  /\ Listed(r, d)
  /\ \A k \in Len(ReqBase(r))..(Len(d) - 1) :
       LET a == SubSeq(d, 1, k)
       IN ~(Join(a, MetaName) \in DOMAIN fs
              /\ fs[Join(a, MetaName)].meta.parse # "bad"
              /\ ~Overlaps(fs[Join(a, MetaName)].meta, Start(r), End(r)))

\* the manifests the resolver that produced the file set has read
ReadDirs(r) ==
  CASE req[r].found.path = "hive" ->
         {d \in ManifestDirs : d \in Range(req[r].found.hourPaths)}
    [] req[r].found.path = "fallback" -> {d \in ManifestDirs : Reached(r, d)}
    [] req[r].found.path = "all" ->
         {d \in ManifestDirs : (d = ReqBase(r) \/ Under(d, ReqBase(r))) /\ Listed(r, d)}
    [] OTHER -> {}

----------------------------------------------------------------------------
(* C1: with a non-null interval, every path the Hive resolver returns is   *)
(* the recorded or local path of a manifest entry whose manifest overlaps  *)
(* the interval and whose own interval overlaps it.                        *)

C1_HiveNeverReturnsExcluded ==
  \A r \in DOMAIN req :
    (Resolved(r) /\ Bounded(r) /\ req[r].found.path \in {"hive", "fallback"}) =>
      \A i \in DOMAIN req[r].found.hive :
        \E d \in ManifestDirs :
          /\ Overlaps(ManifestOf(d), Start(r), End(r))
          /\ \E j \in DOMAIN ManifestOf(d).files :
               /\ OwnOverlaps(ManifestOf(d).files[j], Start(r), End(r))
               /\ req[r].found.hive[i] \in EntryPaths(d, ManifestOf(d).files[j])

\* the Hive resolver returned a file from a manifest that also lists a file
\* outside the interval
C1_Witness ==
  \E r \in DOMAIN req :
    /\ Resolved(r) /\ Bounded(r) /\ req[r].found.path = "hive"
    /\ \E d \in Range(req[r].found.hourPaths) \cap ManifestDirs :
         /\ \E j \in DOMAIN ManifestOf(d).files :
              ~OwnOverlaps(ManifestOf(d).files[j], Start(r), End(r))
         /\ \E j \in DOMAIN ManifestOf(d).files :
              ManifestOf(d).files[j].path \in Range(req[r].found.hive)

----------------------------------------------------------------------------
(* C2: a query with a time predicate resolves with the predicate's         *)
(* interval: when every directory holding parquet files has a manifest and *)
(* no manifest of the measurement overlaps the interval, query() returns   *)
(* an empty array and never calls the engine.                              *)

AnyCmpAt(sql, i) == CmpAt(sql, i, {">=", ">", "<=", "<", "="}) \/ BetweenAt(sql, i)
HasTimePredicate(sql) == \E i \in DOMAIN sql : AnyCmpAt(sql, i)

\* the interval the predicate states: a lone lower bound runs to now, a lone
\* upper bound starts at the epoch
StatedLower(sql) ==
  LET b == FirstMatch(sql, LAMBDA i : BetweenAt(sql, i))
      e == FirstMatch(sql, LAMBDA i : CmpAt(sql, i, {"="}))
      g == FirstMatch(sql, LAMBDA i : CmpAt(sql, i, {">=", ">"}))
  IN IF b # 0 THEN sql[b + 2].n * NsPerMs
     ELSE IF e # 0 THEN sql[e + 2].n * NsPerMs
     ELSE IF g # 0 THEN sql[g + 2].n * NsPerMs
     ELSE 0
StatedUpper(sql, nowMs) ==
  LET b == FirstMatch(sql, LAMBDA i : BetweenAt(sql, i))
      e == FirstMatch(sql, LAMBDA i : CmpAt(sql, i, {"="}))
      l == FirstMatch(sql, LAMBDA i : CmpAt(sql, i, {"<=", "<"}))
  IN IF b # 0 THEN sql[b + 4].n * NsPerMs
     ELSE IF e # 0 THEN sql[e + 2].n * NsPerMs
     ELSE IF l # 0 THEN sql[l + 2].n * NsPerMs
     ELSE nowMs * NsPerMs

AllParquetUnderManifests(base) ==
  \A q \in DOMAIN fs :
    (Under(q, base) /\ fs[q].kind = "file" /\ IsParquetName(Basename(q))) =>
      Parent(q) \in ManifestDirs

\* C2: a finished query with a time predicate whose stated interval no manifest
\* overlaps has returned the empty array and made no engine call
C2_TimePredicatePrunesAll ==
  \A r \in DOMAIN req :
    (/\ req[r].pc = "done" /\ req[r].found.path # "none"
     /\ HasTimePredicate(req[r].sql)
     /\ AllParquetUnderManifests(ReqBase(r))
     /\ \A d \in ManifestDirs :
          Under(d, ReqBase(r)) =>
            ~Overlaps(ManifestOf(d), StatedLower(req[r].sql),
                      StatedUpper(req[r].sql, req[r].now)))
    => (req[r].result = "empty" /\ req[r].engineCalls = <<>>)

----------------------------------------------------------------------------
(* C3: with no time range (start and end both null) findRelevantFiles      *)
(* returns every .parquet file anywhere under the measurement directory,   *)
(* in every directory the scan can list.                                   *)

C3_NoRangeReturnsEveryParquet ==
  \A r \in DOMAIN req :
    (Resolved(r) /\ Start(r) = Null /\ End(r) = Null) =>
      \A q \in DOMAIN fs :
        (/\ Under(q, ReqBase(r)) /\ fs[q].kind = "file" /\ IsParquetName(Basename(q))
         /\ Listed(r, Parent(q))) =>
          q \in Range(req[r].found.files)

\* the scan returned a file its directory's manifest does not list and a
\* file of a directory without a manifest
C3_Witness ==
  \E r \in DOMAIN req :
    /\ Resolved(r) /\ req[r].found.path = "all"
    /\ \E q \in Range(req[r].found.files) :
         /\ Parent(q) \in ManifestDirs
         /\ \A j \in DOMAIN ManifestOf(Parent(q)).files :
              ManifestOf(Parent(q)).files[j].path # q
    /\ \E q \in Range(req[r].found.files) :
         Under(q, ReqBase(r)) /\ Join(Parent(q), MetaName) \notin DOMAIN fs

----------------------------------------------------------------------------
(* C4: with a non-null interval, when the Hive resolver returns no file    *)
(* the interval walk over the measurement directory runs with the same     *)
(* interval and its result is returned, empty or not; when the Hive        *)
(* resolver returns a file, the walk does not run and the Hive result is   *)
(* returned unchanged.                                                     *)

HiveResult(r) ==
  findFilesByHiveStructure(fs, req[r].parsed.dbName, req[r].parsed.measurement,
                           DateOfNs(Start(r)), DateOfNs(End(r)), Start(r), End(r), tz)

\* C4: the interval walk runs exactly when the Hive resolver returned nothing
C4_FallbackExactlyWhenHiveEmpty ==
  \A r \in DOMAIN req :
    (Resolved(r) /\ Bounded(r) /\ req[r].found.path # "threw") =>
      /\ req[r].found.hive = HiveResult(r)
      /\ Len(HiveResult(r)) = 0 =>
           /\ req[r].found.path = "fallback"
           /\ req[r].found.files =
                findMetadataFilesRecursively(fs, ReqBase(r), Start(r), End(r))
      /\ Len(HiveResult(r)) > 0 =>
           /\ req[r].found.path = "hive"
           /\ req[r].found.files = HiveResult(r)

\* the Hive resolver found nothing and the walk found a file
C4_Witness ==
  \E r \in DOMAIN req :
    /\ Resolved(r) /\ Bounded(r)
    /\ req[r].found.path = "fallback"
    /\ Len(req[r].found.hive) = 0
    /\ Len(req[r].found.files) > 0

----------------------------------------------------------------------------
(* C5: when the resolved file set is empty query() returns an empty array, *)
(* raises nothing and never calls the engine; every statement the engine   *)
(* receives names the resolved files, at least one.                        *)

C5_EmptySetShortCircuits ==
  \A r \in DOMAIN req :
    /\ (req[r].pc = "done" /\ req[r].found.path # "none" /\ Len(req[r].found.files) = 0) =>
         (req[r].result = "empty" /\ req[r].error = "none" /\ req[r].engineCalls = <<>>)
    /\ \A i \in DOMAIN req[r].engineCalls :
         /\ Len(req[r].engineCalls[i].files) >= 1
         /\ req[r].engineCalls[i].files = req[r].found.files

\* a query whose resolution found nothing has finished
C5_Witness ==
  \E r \in DOMAIN req :
    /\ req[r].pc = "done" /\ req[r].found.path # "none"
    /\ Len(req[r].found.files) = 0
    /\ req[r].result = "empty"

----------------------------------------------------------------------------
(* C6: a text in which no FROM is followed by a table name makes           *)
(* parseQuery fail with the invalid-query error; query() passes it on      *)
(* having read no directory and called no engine.                          *)

NoTableAfterFrom(sql) ==
  \A i \in DOMAIN sql :
    sql[i] = Kw("FROM") => (i = Len(sql) \/ sql[i + 1].k \notin {"kw", "id"})

\* C6: a text without FROM <table> ends in the invalid-query error, with no
\* directory read and no engine call
C6_MissingFromIsInvalidQuery ==
  \A r \in DOMAIN req :
    (/\ req[r].pc # "idle"
     /\ req[r].error # "QueryClient not initialized"
     /\ NoTableAfterFrom(req[r].sql)) =>
      /\ req[r].pc = "done"
      /\ req[r].error = "Invalid query: FROM clause not found or invalid"
      /\ ~req[r].dirRead
      /\ req[r].engineCalls = <<>>
      /\ req[r].result = "none"

\* a text with FROM followed by a parenthesis was rejected
C6_Witness ==
  \E r \in DOMAIN req :
    /\ req[r].pc = "done"
    /\ \E i \in DOMAIN req[r].sql : req[r].sql[i] = Kw("FROM")
    /\ NoTableAfterFrom(req[r].sql)
    /\ req[r].error = "Invalid query: FROM clause not found or invalid"

----------------------------------------------------------------------------
(* C7: the range handed to findRelevantFiles never has exactly one of      *)
(* start and end null.                                                     *)

C7_RangeNeverHalfNull ==
  \A r \in DOMAIN req :
    req[r].pc \in {"resolving", "resolved", "done"} =>
      ((Start(r) = Null) <=> (End(r) = Null))

----------------------------------------------------------------------------
(* C8: for an interval from start to end, the Hive resolver keeps, in the  *)
(* date= directory of the start day, exactly the hours >= start.hour; in   *)
(* that of the end day, exactly the hours <= end.hour; in the directories  *)
(* of the days between, every hour; and when both fall on one day, exactly *)
(* the hours from start.hour to end.hour.                                  *)

StartDay(r) == LocalDay(DateOfNs(Start(r)), tz)
EndDay(r) == LocalDay(DateOfNs(End(r)), tz)
StartHour(r) == LocalHour(DateOfNs(Start(r)), tz)
EndHour(r) == LocalHour(DateOfNs(End(r)), tz)

\* the hour= directories below the date= directories of the measurement
HourDirsOf(r) ==
  {q \in DOMAIN fs : /\ Len(q) = Len(ReqBase(r)) + 2
                     /\ Under(q, ReqBase(r))
                     /\ IsDateName(q[Len(q) - 1]) /\ IsHourName(q[Len(q)])
                     /\ fs[Parent(q)].kind = "dir"}
Kept(r, q) == q \in Range(req[r].found.hourPaths)

\* C8: the hour= directories kept are those the boundary-day rule selects
C8_BoundaryDayHours ==
  \A r \in DOMAIN req :
    (/\ Resolved(r) /\ Bounded(r) /\ Start(r) <= End(r)
     /\ req[r].found.path \in {"hive", "fallback"}) =>
      \A q \in HourDirsOf(r) :
        LET day == q[Len(q) - 1].n
            hour == q[Len(q)].n
        IN /\ (day = StartDay(r) /\ day = EndDay(r)) =>
                (Kept(r, q) <=> (hour >= StartHour(r) /\ hour <= EndHour(r)))
           /\ (day = StartDay(r) /\ day # EndDay(r)) =>
                (Kept(r, q) <=> hour >= StartHour(r))
           /\ (day # StartDay(r) /\ day = EndDay(r)) =>
                (Kept(r, q) <=> hour <= EndHour(r))
           /\ (day > StartDay(r) /\ day < EndDay(r)) => Kept(r, q)

----------------------------------------------------------------------------
(* C9 as stated: with a non-null interval, the files a manifest lists are  *)
(* in the resolved set exactly when the manifest overlaps the interval,    *)
(* whatever their own intervals.                                           *)

C9_ManifestOverlapAlone ==
  \A r \in DOMAIN req :
    (Resolved(r) /\ Bounded(r) /\ req[r].found.path \in {"hive", "fallback"}) =>
      \A d \in ManifestDirs :
        Under(d, ReqBase(r)) =>
          \A j \in DOMAIN ManifestOf(d).files :
            \A q \in EntryPaths(d, ManifestOf(d).files[j]) :
              q \in Range(req[r].found.files)
                <=> Overlaps(ManifestOf(d), Start(r), End(r))

(* C9 amended: with a non-null interval, for every manifest the resolver   *)
(* reads, a listed file that exists at its recorded path or under its base *)
(* name is in the resolved set when the manifest overlaps the interval and *)
(* the file's own interval overlaps it; when either misses the interval,   *)
(* the file is not in the set (unless something else contributes it).      *)

Passes(r, d, j) ==
  /\ Overlaps(ManifestOf(d), Start(r), End(r))
  /\ OwnOverlaps(ManifestOf(d).files[j], Start(r), End(r))

OnlySource(r, d, j, q) ==
  /\ \A d2 \in ManifestDirs :
       \A j2 \in DOMAIN ManifestOf(d2).files :
         (<<d2, j2>> # <<d, j>>) => q \notin EntryPaths(d2, ManifestOf(d2).files[j2])
  /\ Join(Parent(q), MetaName) \in DOMAIN fs

\* C9 amended: inclusion needs the manifest and the file itself to overlap
C9_ManifestAndFileOverlap ==
  \A r \in DOMAIN req :
    (Resolved(r) /\ Bounded(r) /\ req[r].found.path \in {"hive", "fallback"}) =>
      \A d \in ReadDirs(r) :
        \A j \in DOMAIN ManifestOf(d).files :
          \A q \in EntryPaths(d, ManifestOf(d).files[j]) :
            /\ Passes(r, d, j) => q \in Range(req[r].found.files)
            /\ (~Passes(r, d, j) /\ OnlySource(r, d, j, q)) =>
                 q \notin Range(req[r].found.files)

\* an overlapping manifest was read, and a file it lists whose own interval
\* misses the query was left out while another was returned
C9_Witness ==
  \E r \in DOMAIN req :
    /\ Resolved(r) /\ Bounded(r) /\ req[r].found.path = "hive"
    /\ \E d \in ReadDirs(r) :
         /\ Overlaps(ManifestOf(d), Start(r), End(r))
         /\ \E j \in DOMAIN ManifestOf(d).files :
              /\ ~OwnOverlaps(ManifestOf(d).files[j], Start(r), End(r))
              /\ ManifestOf(d).files[j].path \in DOMAIN fs
              /\ ManifestOf(d).files[j].path \notin Range(req[r].found.files)
         /\ \E j \in DOMAIN ManifestOf(d).files :
              ManifestOf(d).files[j].path \in Range(req[r].found.files)

----------------------------------------------------------------------------
(* C10: in the Hive resolver, the interval walk and the no-interval scan,  *)
(* an entry that passes the overlap test, whose recorded path is missing   *)
(* and whose base name exists in the manifest's directory, is resolved to  *)
(* <manifest directory>/<base name>.                                       *)

C10_RelocatedEntryResolved ==
  \A r \in DOMAIN req :
    (Resolved(r) /\ (Bounded(r) \/ req[r].found.path = "all")) =>
      \A d \in ReadDirs(r) :
        \A j \in DOMAIN ManifestOf(d).files :
          LET e == ManifestOf(d).files[j]
              localPath == Join(d, Basename(e.path))
          IN (/\ req[r].found.path = "all" \/ Passes(r, d, j)
              /\ e.path \notin DOMAIN fs
              /\ localPath \in DOMAIN fs) =>
               localPath \in Range(req[r].found.files)

----------------------------------------------------------------------------
(* C11 as stated: with the single manifest of the end-to-end example in    *)
(* date=<d>/hour=14 (its times long before the partition's day, its entry  *)
(* recorded as the bare file name) and the file present there, the query   *)
(* with time >= <d>T14:00 resolves to exactly that one file.               *)

ExampleQuery ==
  Select \o FromTable(Measurement) \o Where \o <<Time, Op(">="), Lit(At(1, 14, 0))>>
ExampleCase(r) == fs = ExampleTree /\ req[r].sql = ExampleQuery /\ Resolved(r)

C11_ExampleResolvesOneFile ==
  \A r \in DOMAIN req :
    ExampleCase(r) => req[r].found.files = <<Pq(HourDir(1, 14), 1)>>

(* C11 amended: in that example, when the predicate's interval is the one  *)
(* handed to findRelevantFiles, the query resolves to no file: the         *)
(* manifest ends before the interval starts, so the Hive resolver returns  *)
(* nothing and the interval walk prunes the directory.                     *)

C11_ExampleResolvesNothing ==
  \A r \in DOMAIN req :
    (ExampleCase(r) /\ Bounded(r)) =>
      /\ req[r].found.path = "fallback"
      /\ req[r].found.files = <<>>

\* the example query was resolved with its interval, the hour directory was
\* opened by the Hive resolver, and nothing was found
C11_Witness ==
  \E r \in DOMAIN req :
    /\ ExampleCase(r) /\ Bounded(r)
    /\ HourDir(1, 14) \in Range(req[r].found.hourPaths)
    /\ req[r].found.files = <<>>

----------------------------------------------------------------------------
(* C15: with a non-null interval and every date= entry a listable          *)
(* directory, a manifest that cannot be parsed or has no files list, and a *)
(* directory the walk cannot list, do not make findRelevantFiles fail: the *)
(* resolver returns, the offending directory contributes no file, and the  *)
(* passing entries of every other manifest it reads are returned.          *)

UnusableManifestDirs ==
  {Parent(p) : p \in {q \in DOMAIN fs : /\ Basename(q) = MetaName
                                        /\ fs[q].meta.parse \in {"bad", "nofiles"}}}
DeniedDirs == {p \in DOMAIN fs : IsDir(fs, p) /\ ~Listable(fs, p)}
HasFault(r) ==
  \E d \in UnusableManifestDirs \cup DeniedDirs : Under(d, ReqBase(r))
DateEntriesListable(r) ==
  \A p \in DOMAIN fs :
    (Len(p) = Len(ReqBase(r)) + 1 /\ Under(p, ReqBase(r)) /\ IsDateName(Basename(p)))
      => Listable(fs, p)

C15_FaultsDoNotAbortResolution ==
  \A r \in DOMAIN req :
    (Resolved(r) /\ Bounded(r) /\ HasFault(r) /\ DateEntriesListable(r)) =>
      /\ req[r].found.path \in {"hive", "fallback"}
      /\ \A q \in Range(req[r].found.files) : Parent(q) \notin UnusableManifestDirs
      /\ req[r].found.path = "fallback" =>
           \A q \in Range(req[r].found.files) : \A d \in DeniedDirs : ~Under(q, d)
      /\ \A d \in ReadDirs(r) :
           \A j \in DOMAIN ManifestOf(d).files :
             Passes(r, d, j) =>
               EntryPaths(d, ManifestOf(d).files[j]) \subseteq Range(req[r].found.files)

\* the Hive resolver opened a partition whose manifest cannot be used and
\* still returned another partition's file
C15_Witness ==
  \E r \in DOMAIN req :
    /\ Resolved(r) /\ Bounded(r) /\ req[r].found.path = "hive"
    /\ UnusableManifestDirs \cap Range(req[r].found.hourPaths) # {}
    /\ Len(req[r].found.files) > 0

----------------------------------------------------------------------------
(* C12: with several /query and /sql requests in flight, at most one       *)
(* statement is executing on the connection at any moment, while the       *)
(* resolution phases of different requests interleave.                     *)

Executing == {r \in DOMAIN req : req[r].pc = "executing"}

C12_OneStatementAtATime == Cardinality(Executing) <= 1

\* one request's statement is executing while another request, already
\* resolved, waits to run its own
C12_Witness ==
  \E r1, r2 \in DOMAIN req :
    /\ r1 # r2
    /\ req[r1].pc = "executing"
    /\ req[r2].pc = "resolved" /\ Len(req[r2].found.files) > 0

----------------------------------------------------------------------------
(* C13: for queries interleaved on one QueryClient over an unchanging      *)
(* filesystem, each query's descriptor, resolved file set and statement    *)
(* are the ones it produces alone: functions of its own text and the       *)
(* filesystem, whatever the other query is or has done.                    *)

AloneParsed(r) == parseQuery(copy, req[r].sql, DataDb, req[r].now)
AloneFound(r) ==
  findRelevantFiles(fs, AloneParsed(r).dbName, AloneParsed(r).measurement,
                    AloneParsed(r).timeRange, tz)

C13_QueriesDoNotShareState ==
  \A r \in DOMAIN req :
    /\ req[r].pc \in {"resolving", "resolved"} => req[r].parsed = AloneParsed(r)
    /\ Resolved(r) =>
         /\ req[r].found = AloneFound(r)
         /\ \A i \in DOMAIN req[r].engineCalls :
              req[r].engineCalls[i] =
                Statement(copy, req[r].sql, AloneParsed(r), AloneFound(r).files)

\* two queries with different texts and different file sets are both
\* resolved, neither finished
C13_Witness ==
  \E r1, r2 \in DOMAIN req :
    /\ req[r1].pc = "resolved" /\ req[r2].pc = "resolved"
    /\ req[r1].sql # req[r2].sql
    /\ Len(req[r1].found.files) > 0
    /\ Len(req[r2].found.files) > 0
    /\ req[r1].found.files # req[r2].found.files

----------------------------------------------------------------------------
(* C14 as stated: no operation creates, changes or deletes a manifest or a *)
(* parquet file, and the only entries an operation adds are date= and      *)
(* hour= directories.                                                      *)

FilesUntouched ==
  /\ \A q \in DOMAIN fs : q \in DOMAIN fs' /\ fs'[q] = fs[q]
  /\ \A q \in DOMAIN fs' \ DOMAIN fs : fs'[q] = DirNode

----------------------------------------------------------------------------
(* From the engine's rows to the response *)

OneMs == NsPerMs * At(1, 14, 1)
Rows ==
  {Object(<<Prop("time", BigInt(OneMs)), Prop("v", Number(1))>>),
   Object(<<Prop("time", BigInt(OneMs + 1))>>),
   Object(<<Prop("time", BigInt(0)), Prop("v", Number(1))>>),
   Object(<<Prop("time", BigInt(NsPerMs * (MaxDateMs + 1)))>>),
   Object(<<Prop("timestamp", Date(At(1, 14, 1)))>>),
   Object(<<Prop("timestamp", InvalidDate)>>),
   Object(<<Prop("v", BigInt(7))>>),
   Object(<<Prop("count", JsNull), Prop("v", Number(1))>>),
   Object(<<Prop("tags", Array(<<BigInt(7), Number(1)>>))>>),
   Object(<<Prop("tags", Object(<<Prop("v", BigInt(7))>>))>>),
   Object(<<Prop("tags", Array(<<Object(<<Prop("v", BigInt(7))>>)>>))>>),
   Object(<<Prop("tags", Array(<<Array(<<Number(1)>>)>>))>>),
   Object(<<Prop("v", Number(1))>>)}
Batches == {Array(<<>>)} \cup {Array(<<a>>) : a \in Rows} \cup {Array(<<a, b>>) : a, b \in Rows}
\* POST /query, POST /sql, and _postProcessResults called by itself
Endpoints == {"query", "sql", "post"}

\* what a failing execution throws: parseQuery, the connection check, the
\* engine (wrapped by the second class), the body parser
Messages ==
  {"Invalid query: FROM clause not found or invalid", "QueryClient not initialized",
   "DuckDB query execution failed", "Unexpected token in JSON"}

\* the handler up to its call of the query client or the engine:
\* if (!params.query) / if (!params.sql) answers 400
Request(endpoint, present) ==
  /\ wire.pc = "idle"
  /\ wire' = IF endpoint # "post" /\ ~present
               THEN [wire EXCEPT !.pc = "responded", !.endpoint = endpoint,
                                 !.present = FALSE, !.status = 400, !.body = "error",
                                 !.error = IF endpoint = "query" THEN "Missing query parameter"
                                           ELSE "Missing sql parameter"]
               ELSE [wire EXCEPT !.pc = "called", !.endpoint = endpoint, !.calls = 1]
  /\ UNCHANGED <<fs, tz, copy, connection, req, lp, duck>>

\* the call throws: catch (error) { return c.json({ error: error.message }, 500) }
ExecutionThrows(message) ==
  /\ wire.pc = "called" /\ wire.endpoint # "post"
  /\ wire' = [wire EXCEPT !.pc = "responded", !.raised = message, !.status = 500,
                          !.body = "error", !.error = message]
  /\ UNCHANGED <<fs, tz, copy, connection, req, lp, duck>>

\* connection.query(...) has returned the rows
EngineAnswers(batch) ==
  /\ wire.pc = "called"
  /\ wire' = [wire EXCEPT !.pc = "answered", !.result = batch]
  /\ UNCHANGED <<fs, tz, copy, connection, req, lp, duck>>

\* _postProcessResults(results)
PostProcess ==
  /\ wire.pc = "answered" /\ wire.endpoint = "post"
  /\ wire' = [wire EXCEPT !.pc = "returned",
                          !.returned = IF copy = "first" THEN postProcessResults(wire.result)
                                       ELSE postProcessResultsSecond(wire.result)]
  /\ UNCHANGED <<fs, tz, copy, connection, req, lp, duck>>

\* what query() returns after the engine call; the handler's catch answers
\* 500 when it throws
ClientReturns ==
  /\ wire.pc = "answered" /\ wire.endpoint = "query"
  /\ LET returned == IF copy = "first" THEN postProcessResults(wire.result)
                     ELSE wire.result
     IN wire' = [wire EXCEPT !.returned = returned,
                             !.pc = IF returned = Threw THEN "responded" ELSE "returned",
                             !.status = IF returned = Threw THEN 500 ELSE 0,
                             !.raised = IF returned = Threw THEN "Invalid time value" ELSE "none",
                             !.body = IF returned = Threw THEN "error" ELSE "none",
                             !.error = IF returned = Threw THEN "Invalid time value" ELSE "none"]
  /\ UNCHANGED <<fs, tz, copy, connection, req, lp, duck>>

\* return c.json({ results: processedResults }): JSON.stringify throws on a
\* BigInt and the handler's catch answers 500 with that message
Respond(processedResults) ==
  [wire EXCEPT !.pc = "responded", !.normalized = processedResults,
               !.status = IF HasBigInt(processedResults) THEN 500 ELSE 200,
               !.body = IF HasBigInt(processedResults) THEN "error" ELSE "results",
               !.error = IF HasBigInt(processedResults)
                           THEN "Do not know how to serialize a BigInt" ELSE "none"]

\* POST /query after the await: the row mapping, then c.json
QueryResponds ==
  /\ wire.pc = "returned" /\ wire.endpoint = "query"
  /\ LET processedResults == FixRows(wire.returned)
     IN wire' = Respond(processedResults)
  /\ UNCHANGED <<fs, tz, copy, connection, req, lp, duck>>

\* POST /sql: processBigIntInResults, then c.json
SqlResponds ==
  /\ wire.pc = "answered" /\ wire.endpoint = "sql"
  /\ LET processedResults == processBigIntInResults(wire.result)
     IN wire' = Respond(processedResults)
  /\ UNCHANGED <<fs, tz, copy, connection, req, lp, duck>>

\* the same normalization applied to its own output: the function of the
\* endpoint called once more
Renormalize ==
  /\ \/ wire.pc = "responded" /\ wire.normalized # Undefined
     \/ wire.pc = "returned" /\ wire.endpoint = "post" /\ wire.returned # Threw
  /\ wire' = [wire EXCEPT !.pc = "renormalized",
        !.again = IF wire.endpoint = "sql" THEN processBigIntInResults(wire.normalized)
                  ELSE IF wire.endpoint = "query" THEN FixRows(wire.normalized)
                  ELSE IF copy = "first" THEN postProcessResults(wire.returned)
                  ELSE postProcessResultsSecond(wire.returned)]
  /\ UNCHANGED <<fs, tz, copy, connection, req, lp, duck>>

InitWire ==
  /\ fs = Roots
  /\ tz = 0
  /\ copy \in Copies
  /\ connection = "open"
  /\ req = [r \in {1} |-> IdleReq]
  /\ wire = IdleWire
  /\ lp = IdleLp
  /\ duck = OpenDuck

NextWire ==
  \/ \E endpoint \in Endpoints, present \in BOOLEAN : Request(endpoint, present)
  \/ \E message \in Messages : ExecutionThrows(message)
  \/ \E batch \in Batches : EngineAnswers(batch)
  \/ PostProcess
  \/ ClientReturns
  \/ QueryResponds
  \/ SqlResponds
  \/ Renormalize

SpecWire == InitWire /\ [][NextWire]_vars

----------------------------------------------------------------------------
(* _extractTimeRange called by itself *)

RangeQueries ==
  Queries \cup {q \o <<WS>> : q \in Queries}
    \cup {Select \o FromTable(Measurement) \o Where
            \o <<Time, Kw("BETWEEN"), Lit(At(1, 14, 0)), Kw("AND"), Lit(0)>> \o e : e \in Endings}
    \cup {Select \o FromTable(Measurement) \o Where
            \o <<Time, Op(">"), Lit(At(1, 14, 0)), Kw("AND"), Time, Op("<="), Lit(0)>> \o e :
            e \in Endings}

\* this._extractTimeRange(sql)
TimeRangeCall(r, sql, nowMs) ==
  /\ req[r].pc = "idle"
  /\ req' = [req EXCEPT ![r] =
       [@ EXCEPT !.pc = "ranged", !.sql = sql, !.now = nowMs,
                 !.parsed = [NoParsed EXCEPT !.timeRange =
                               IF copy = "first" THEN extractTimeRange(sql, nowMs)
                               ELSE extractTimeRangeSecond(sql, nowMs)]]]
  /\ UNCHANGED <<fs, tz, copy, connection, wire, lp, duck>>

InitRange ==
  /\ fs = Roots
  /\ tz = 0
  /\ copy \in Copies
  /\ connection = "open"
  /\ req = [r \in {1} |-> IdleReq]
  /\ wire = IdleWire
  /\ lp = IdleLp
  /\ duck = OpenDuck

NextRange == \E r \in DOMAIN req, sql \in RangeQueries, nowMs \in Nows : TimeRangeCall(r, sql, nowMs)

SpecRange == InitRange /\ [][NextRange]_vars

----------------------------------------------------------------------------
(* Parsing line protocol data *)

RawValues ==
  {<<"1", "2", "i">>, <<"-", "3", "i">>, <<"7">>, <<"1", ".", "5">>,
   <<"t">>, <<"T">>, <<"t", "r", "u", "e">>, <<"T", "r", "u", "e">>, <<"T", "R", "U", "E">>,
   <<"f">>, <<"F">>, <<"f", "a", "l", "s", "e">>, <<"F", "a", "l", "s", "e">>,
   <<"F", "A", "L", "S", "E">>,
   <<"\"", "a", "b", "\"">>, <<"\"", "a", " ", "b", "\"">>, <<"\"", "h", "i", "\"">>}
\* one or two fields of a point
FieldLists ==
  {<<[key |-> <<"v">>, raw |-> a]>> : a \in RawValues}
    \cup {<<[key |-> <<"v">>, raw |-> <<"7">>], [key |-> <<"w">>, raw |-> b]>> : b \in RawValues}
Stamps == {<<>>, <<"9">>, <<"1", "5", "4">>}
RECURSIVE JoinFields(_)
\* key=value,key=value
JoinFields(fields) ==
  IF fields = <<>> THEN <<>>
  ELSE Head(fields).key \o <<"=">> \o Head(fields).raw
         \o (IF Len(fields) > 1 THEN <<",">> \o JoinFields(Tail(fields)) ELSE <<>>)
\* measurement,tag=value fields [timestamp]
LineOf(fields, stamp) ==
  <<"m", ",", "h", "=", "a", " ">> \o JoinFields(fields)
    \o (IF stamp = <<>> THEN <<>> ELSE <<" ">> \o stamp)

\* a caller has a text to parse
LineArrives(fields, stamp, withComment, nowMs) ==
  /\ lp.pc = "idle"
  /\ lp' = [lp EXCEPT !.pc = "ready", !.fields = fields, !.stamp = stamp, !.now = nowMs,
                       !.data = (IF withComment THEN <<"#", "c", "\n">> ELSE <<>>)
                                  \o LineOf(fields, stamp) \o <<"\n">>]
  /\ UNCHANGED <<fs, tz, copy, connection, req, wire, duck>>

\* parse(data)
Parse ==
  /\ lp.pc = "ready"
  /\ lp' = [lp EXCEPT !.pc = "parsed", !.points = parse(lp.data, lp.now)]
  /\ UNCHANGED <<fs, tz, copy, connection, req, wire, duck>>

InitLine ==
  /\ fs = Roots
  /\ tz = 0
  /\ copy \in Copies
  /\ connection = "open"
  /\ req = [r \in {1} |-> IdleReq]
  /\ wire = IdleWire
  /\ lp = IdleLp
  /\ duck = OpenDuck

NextLine ==
  \/ \E fields \in FieldLists, stamp \in Stamps, withComment \in BOOLEAN, nowMs \in Nows :
       LineArrives(fields, stamp, withComment, nowMs)
  \/ Parse

SpecLine == InitLine /\ [][NextLine]_vars

----------------------------------------------------------------------------
(* How a statement reads: its clauses, each running from its keyword to    *)
(* the next clause keyword or the end of the text.                         *)

ClauseWords == {"WHERE", "GROUP", "HAVING", "ORDER", "LIMIT"}
ClauseOf(text, word) ==
  LET t == Trim(text)
      S == {i \in DOMAIN t : t[i] = Kw(word)}
      i == IF S = {} THEN 0 ELSE Least(S)
      E == {j \in DOMAIN t : j > i /\ t[j].k = "kw" /\ t[j].s \in ClauseWords}
  IN IF i = 0 THEN <<>>
     ELSE SubSeq(t, i + 1, IF E = {} THEN Len(t) ELSE Least(E) - 1)
Count(c, x) == Cardinality({i \in DOMAIN c : c[i] = x})
SameTokens(a, b) == \A x \in Range(a) \cup Range(b) : Count(a, x) = Count(b, x)
Reconstructed(r) ==
  {i \in DOMAIN req[r].engineCalls : copy = "first" /\ req[r].pc \in {"executing", "done"}}
Substituted(r) ==
  {i \in DOMAIN req[r].engineCalls : copy = "second" /\ req[r].pc \in {"executing", "done"}}

(* C16: the statement built by clause reconstruction holds the caller's    *)
(* WHERE, GROUP BY, HAVING, ORDER BY and LIMIT content: the WHERE clause   *)
(* has the caller's predicates and connectors (conjuncts may change        *)
(* places), and each other clause is the caller's.                         *)

C16_ReconstructionKeepsClauses ==
  \A r \in DOMAIN req :
    \A i \in Reconstructed(r) :
      LET text == req[r].engineCalls[i].text
          sql == req[r].sql
      IN /\ SameTokens(ClauseOf(text, "WHERE"), ClauseOf(sql, "WHERE"))
         /\ \A w \in {"GROUP", "HAVING", "ORDER", "LIMIT"} :
              ClauseOf(text, w) = ClauseOf(sql, w)

(* C17: the statement built by textual substitution is the caller's text   *)
(* with the first FROM <table> span replaced by the read_parquet relation  *)
(* and everything else in place.                                           *)

C17_SubstitutionKeepsTheRest ==
  \A r \in DOMAIN req :
    \A i \in Substituted(r) :
      LET sql == Trim(req[r].sql)
          f == FirstMatch(sql, LAMBDA j : FromAt(sql, j))
          last == IF FromQualified(sql, f) THEN f + 3 ELSE f + 1
      IN req[r].engineCalls[i].text =
           SubSeq(sql, 1, f - 1) \o <<Kw("FROM"), Rel>> \o SubSeq(sql, last + 1, Len(sql))

----------------------------------------------------------------------------
(* The normalization the responses are to have *)

RECURSIVE WideIntegersAsStrings(_)
\* every BigInt replaced by its decimal string, everything else as it was
WideIntegersAsStrings(v) ==
  IF v.t = "bigint" THEN DecimalString(v.n)
  ELSE [v EXCEPT !.kids = [i \in DOMAIN @ |-> Prop(@[i].key, WideIntegersAsStrings(@[i].val))]]
\* a null count of a row of POST /query is 0
NullCountsAsZero(results) ==
  [results EXCEPT !.kids = [i \in DOMAIN @ |-> Prop(@[i].key,
     [@[i].val EXCEPT !.kids = [j \in DOMAIN @ |->
        IF KeyIncludesCount(@[j].key) /\ @[j].val = JsNull
          THEN Prop(@[j].key, Number(0)) ELSE @[j]]])]]
Normalized == wire.pc = "responded" /\ wire.normalized # Undefined

(* C18: in the normalized rows of a /query or /sql response no BigInt is   *)
(* left at any depth: each is replaced by its decimal string, and every    *)
(* other value is as it was (a null count of /query apart, which is 0).    *)

C18_NoWideIntegerRemains ==
  Normalized =>
    /\ ~HasBigInt(wire.normalized)
    /\ wire.normalized =
         IF wire.endpoint = "sql" THEN WideIntegersAsStrings(wire.result)
         ELSE WideIntegersAsStrings(NullCountsAsZero(wire.returned))

(* C19: every row that query() returns with a nanosecond BigInt time has   *)
(* time_iso, the ISO string of time / 1,000,000 ms (time / NsPerMs at the  *)
(* scale of the model), and keeps its time.                                *)

C19_TimeIsoAdded ==
  (wire.endpoint = "query" /\ wire.pc \in {"returned", "responded"} /\ wire.returned # Threw) =>
    /\ Len(wire.returned.kids) = Len(wire.result.kids)
    /\ \A i \in DOMAIN wire.result.kids :
         LET time == Field(wire.result.kids[i].val, "time")
             row == wire.returned.kids[i].val
         IN (time.t = "bigint" /\ ~DateThrows(time.n \div NsPerMs)) =>
              /\ Field(row, "time") = time
              /\ Field(row, "time_iso") = IsoString(time.n \div NsPerMs)

(* C20: a row whose normalization fails does not abort the batch: as many  *)
(* rows come out as went in, in the same order, the failing row as it was  *)
(* and every other row normalized.  For _postProcessResults and for the    *)
(* row mapping of /query.                                                  *)

C20_RowFailureKeepsBatch ==
  /\ (wire.endpoint \in {"post", "query"} /\ wire.returned # Undefined) =>
       /\ wire.returned # Threw
       /\ Len(wire.returned.kids) = Len(wire.result.kids)
       /\ \A i \in DOMAIN wire.result.kids :
            LET row == wire.result.kids[i].val
            IN PostProcessRowThrows(row) => wire.returned.kids[i].val = row
  /\ (wire.endpoint = "query" /\ Normalized) =>
       Len(wire.normalized.kids) = Len(wire.returned.kids)

----------------------------------------------------------------------------
(* Normalizing twice *)

\* what went into the normalization of the exchange, and what came out
NormalizedFrom ==
  IF wire.endpoint = "query" THEN wire.returned ELSE wire.result
NormalizedTo ==
  IF wire.endpoint = "post" THEN wire.returned ELSE wire.normalized

(* C21: normalization is idempotent: the normalized rows normalized again  *)
(* are the same rows; and rows that hold no BigInt at any depth come out   *)
(* with the same fields and values.                                        *)

C21_NormalizationIdempotent ==
  wire.pc = "renormalized" =>
    /\ wire.again = NormalizedTo
    /\ ~HasBigInt(NormalizedFrom) => NormalizedTo = NormalizedFrom

\* C21, its first half alone: a second pass changes nothing
C21_SecondPassChangesNothing ==
  wire.pc = "renormalized" => wire.again = NormalizedTo

----------------------------------------------------------------------------
(* Status codes *)

Responded == wire.pc \in {"responded", "renormalized"} /\ wire.endpoint \in {"query", "sql"}

(* C22: a POST /query without query, or a POST /sql without sql, answers   *)
(* 400 with an error body and calls nothing; an error raised while the     *)
(* query executes answers 500 with the error's message as body; an         *)
(* execution that succeeds answers with the results.                       *)

C22_StatusCodes ==
  Responded =>
    /\ ~wire.present => (wire.status = 400 /\ wire.body = "error" /\ wire.calls = 0)
    /\ wire.raised # "none" =>
         (wire.status = 500 /\ wire.body = "error" /\ wire.error = wire.raised)
    /\ (wire.present /\ wire.raised = "none") => (wire.status = 200 /\ wire.body = "results")

----------------------------------------------------------------------------
(* What a field value is to decode to *)

Lower(c) ==
  CASE c = "T" -> "t" [] c = "R" -> "r" [] c = "U" -> "u" [] c = "E" -> "e"
    [] c = "F" -> "f" [] c = "A" -> "a" [] c = "L" -> "l" [] c = "S" -> "s"
    [] OTHER -> c
LowerText(text) == [i \in DOMAIN text |-> Lower(text[i])]
Decoded(raw) ==
  IF raw[Len(raw)] = "i" THEN LpValue("number", SubSeq(raw, 1, Len(raw) - 1))
  ELSE IF LowerText(raw) \in {<<"t">>, <<"t", "r", "u", "e">>} THEN LpValue("boolean", <<"true">>)
  ELSE IF LowerText(raw) \in {<<"f">>, <<"f", "a", "l", "s", "e">>}
    THEN LpValue("boolean", <<"false">>)
  ELSE IF Head(raw) = "\"" THEN LpValue("string", SubSeq(raw, 2, Len(raw) - 1))
  ELSE LpValue("number", raw)

(* C23: parse gives one point for the line; each field of it is the        *)
(* integer before the suffix i, the boolean for t, f, true, false in any   *)
(* letter case, the text between double quotes, or else the floating-point *)
(* number; and the timestamp is the one written or, without one, the       *)
(* current time in nanoseconds.                                            *)

C23_FieldsDecoded ==
  lp.pc = "parsed" =>
    /\ Len(lp.points) = 1
    /\ lp.points[1].fields =
         [i \in DOMAIN lp.fields |-> [key |-> lp.fields[i].key, value |-> Decoded(lp.fields[i].raw)]]
    /\ lp.points[1].timestamp =
         IF lp.stamp = <<>> THEN lp.now * NsPerMs ELSE DigitsValue(lp.stamp)

----------------------------------------------------------------------------
(* The bounds _extractTimeRange is to return *)

Ranged(r) == req[r].pc = "ranged"
BetweenIn(sql) == FirstMatch(sql, LAMBDA i : BetweenAt(sql, i))
CmpIn(sql, ops) == FirstMatch(sql, LAMBDA i : CmpAt(sql, i, ops))
NsOf(sql, i) == sql[i].n * NsPerMs

(* C24: with a BETWEEN a AND b on time, start and end are a and b in       *)
(* nanoseconds whatever else the text compares time with; otherwise an =   *)
(* gives start = end = its instant, and else > or >= gives start and < or  *)
(* <= gives end.  A bound is the literal's milliseconds times 1,000,000    *)
(* (NsPerMs in the model).                                                 *)

C24_BoundsFromPredicates ==
  \A r \in DOMAIN req :
    Ranged(r) =>
      LET sql == req[r].sql
          range == req[r].parsed.timeRange
          b == BetweenIn(sql)
          eq == CmpIn(sql, {"="})
          lo == CmpIn(sql, {">", ">="})
          hi == CmpIn(sql, {"<", "<="})
      IN IF b # 0 THEN range.start = NsOf(sql, b + 2) /\ range.end = NsOf(sql, b + 4)
         ELSE IF eq # 0 THEN range.start = NsOf(sql, eq + 2) /\ range.end = NsOf(sql, eq + 2)
         ELSE /\ lo # 0 => range.start = NsOf(sql, lo + 2)
              /\ hi # 0 => range.end = NsOf(sql, hi + 2)

----------------------------------------------------------------------------
(* A date= entry that cannot be listed *)

\* the date= entries of the request's measurement that readdir rejects: a
\* plain file, a directory without read permission
UnlistableDates(r) ==
  {p \in DOMAIN fs : /\ Len(p) = Len(ReqBase(r)) + 1 /\ Under(p, ReqBase(r))
                     /\ IsDateName(Basename(p)) /\ ~Listable(fs, p)}
\* the tree without these entries and what is below them
WithoutUnlistableDates(r) ==
  LET keep == {p \in DOMAIN fs : \A d \in UnlistableDates(r) : p # d /\ ~Under(p, d)}
  IN [p \in keep |-> fs[p]]

(* C25: in the Hive resolver a date= or hour= entry that cannot be listed  *)
(* costs only that entry: findRelevantFiles returns what it would return   *)
(* were the entry not there, the files of the other partitions and, when   *)
(* the Hive result is empty, those of the fallback resolver.               *)

C25_UnlistableEntryIsLocal ==
  \A r \in DOMAIN req :
    (Resolved(r) /\ Bounded(r)) =>
      req[r].found.files =
        findRelevantFiles(WithoutUnlistableDates(r), Descriptor(r).dbName,
                          Descriptor(r).measurement, Descriptor(r).timeRange, tz).files

----------------------------------------------------------------------------
(* What one directory adds to the file list of the fallback walk *)

Walked(r) ==
  /\ Resolved(r)
  /\ req[r].found.path = "all" \/ (req[r].found.path = "fallback" /\ Bounded(r))
\* the .parquet files that lie in d itself
RawFiles(d) ==
  {q \in DOMAIN fs : Len(q) = Len(d) + 1 /\ Under(q, d) /\ IsFile(fs, q)
                     /\ IsParquetName(Basename(q))}
\* the manifest entries the walk has read that pass the tests and lead to q
EntriesFor(r, q) ==
  {x \in {<<d, j>> : d \in ReadDirs(r), j \in 1 .. 3} :
     /\ x[2] \in DOMAIN ManifestOf(x[1]).files
     /\ IF req[r].found.path = "fallback"
          THEN /\ Passes(r, x[1], x[2])
               /\ q \in EntryPaths(x[1], ManifestOf(x[1]).files[x[2]])
          ELSE q = ManifestOf(x[1]).files[x[2]].path}
\* the directories the walk has listed that hold no manifest
PlainDirs(r) ==
  {d \in DOMAIN fs :
     /\ IsDir(fs, d) /\ (d = ReqBase(r) \/ Under(d, ReqBase(r)))
     /\ Join(d, MetaName) \notin DOMAIN fs
     /\ IF req[r].found.path = "fallback" THEN Reached(r, d) ELSE Listed(r, d)}

(* C26: in the fallback walk, with or without an interval, a directory     *)
(* with a manifest adds the manifest's listed files that pass the overlap  *)
(* test and exist, and nothing from its own listing: a .parquet file of    *)
(* such a directory is in the result once for each entry that leads to it  *)
(* and not once more.  A directory without a manifest adds its .parquet    *)
(* files.                                                                  *)

C26_ManifestInLieuOfListing ==
  \A r \in DOMAIN req :
    Walked(r) =>
      /\ \A d \in ReadDirs(r) : \A q \in RawFiles(d) :
           Count(req[r].found.files, q) = Cardinality(EntriesFor(r, q))
      /\ \A d \in PlainDirs(r) : \A q \in RawFiles(d) :
           Count(req[r].found.files, q) >= 1

\* the directories at or below the measurement directory that can be listed
\* together with every directory above them
WalkDirs(r) ==
  {d \in DOMAIN fs : IsDir(fs, d) /\ (d = ReqBase(r) \/ Under(d, ReqBase(r))) /\ Listed(r, d)}
\* what the visit of d adds: the entries of its manifest that pass, else its
\* own .parquet files
Contribution(r, d) ==
  IF Join(d, MetaName) \notin DOMAIN fs THEN RawFiles(d)
  ELSE IF d \notin ManifestDirs THEN {}
  ELSE UNION {EntryPaths(d, ManifestOf(d).files[j]) :
                j \in {i \in DOMAIN ManifestOf(d).files : Passes(r, d, i)}}

(* C27: the fallback walk visits every subdirectory of every directory it  *)
(* visits, whatever manifest the directory holds: each directory below the *)
(* measurement directory adds its files, and a manifest that misses the    *)
(* interval takes away only the files it lists.                            *)

C27_EverySubdirectoryVisited ==
  \A r \in DOMAIN req :
    (Resolved(r) /\ req[r].found.path = "fallback" /\ Bounded(r)) =>
      \A d \in WalkDirs(r) : Contribution(r, d) \subseteq Range(req[r].found.files)

\* how many directories lie between the measurement directory and the file q
Level(r, q) == Len(q) - Len(ReqBase(r)) - 1

(* C28: the walks of the fallback resolver never go more than 10 levels    *)
(* below the measurement directory: every file they return from below it   *)
(* lies in a directory at most 10 levels down, and a .parquet file among   *)
(* them is one the walk of the debug endpoint, which has that bound,       *)
(* collects too.                                                           *)

C28_WalkStopsAtDepthBound ==
  \A r \in DOMAIN req :
    Walked(r) =>
      \A q \in Range(req[r].found.files) :
        Under(q, ReqBase(r)) =>
          /\ Level(r, q) <= MaxLevel
          /\ IsParquetName(Basename(q)) => q \in Range(findFiles(fs, ReqBase(r), 0))

----------------------------------------------------------------------------
(* initialize, query and close in any order on one QueryClient *)

MaxCalls == 3
LifeQueries == {Select \o FromTable(Measurement)}

InitLife ==
  /\ fs = Roots @@ Partition("one", 1, 14)
  /\ tz = 0
  /\ copy \in Copies
  /\ connection = "null"
  /\ req = [r \in 1..MaxCalls |-> IdleReq]
  /\ wire = IdleWire
  /\ lp = IdleLp
  /\ duck = NoDuck

NextLife ==
  \/ initialize
  \/ close
  \/ \E r \in DOMAIN req, sql \in LifeQueries :
       /\ IF r = 1 THEN TRUE ELSE req[r - 1].pc # "idle"
       /\ QueryStart(r, sql, At(MaxDay, 23, 1))
  \/ \E r \in DOMAIN req : QueryResolve(r)
  \/ \E r \in DOMAIN req : QueryExecute(r)
  \/ \E r \in DOMAIN req, outcome \in {"rows", "throws"} : EngineReturn(r, outcome)

SpecLife == InitLife /\ [][NextLife]_vars

NotInitialized(q) ==
  /\ q.pc = "done" /\ q.error = "QueryClient not initialized"
  /\ ~q.dirRead /\ q.engineCalls = <<>>

\* a call of query() that starts while no database is open is refused at once
RefusedAtOnce ==
  \A r \in DOMAIN req :
    (req[r].pc = "idle" /\ req'[r].pc # "idle" /\ duck.db = "null")
      => NotInitialized(req'[r])
\* a refused call stays without directory read and engine call; a statement
\* runs on an open connection only; no connection or database is closed twice
LifecycleKept ==
  /\ \A r \in DOMAIN req :
       /\ req[r].error = "QueryClient not initialized" => NotInitialized(req[r])
       /\ req[r].pc = "executing" => connection = "open"
  /\ duck.connectionCloses <= 1 /\ duck.dbCloses <= 1

(* C29: over any sequence of initialize, query and close on one client: a  *)
(* query that starts before the first initialize or after a close with no  *)
(* initialize since fails with 'QueryClient not initialized' and reads no  *)
(* directory and calls no engine; the engine is never called on a closed   *)
(* connection; close called twice closes connection and database once.     *)

C29_LifecycleSafety == []LifecycleKept /\ [][RefusedAtOnce]_vars

\* a query refused after a close, an earlier one answered, and close called
\* twice in a row
C29_Witness ==
  /\ duck.closeCalls = 2 /\ duck.connectionCloses = 1 /\ duck.dbCloses = 1
  /\ \E r, o \in DOMAIN req :
       /\ o < r /\ req[o].result = "rows"
       /\ NotInitialized(req[r])

----------------------------------------------------------------------------
\* the manifest of the hour= directory q lies within the hour and day that q
\* and its date= directory name
WithinOwnHour(q) ==
  /\ q \in ManifestDirs
  /\ ManifestOf(q).min_time >= HourLo(q[Len(q) - 1].n, q[Len(q)].n)
  /\ ManifestOf(q).max_time <= HourHi(q[Len(q) - 1].n, q[Len(q)].n)
  /\ ManifestOf(q).min_time <= ManifestOf(q).max_time

(* C30: the date filter and the hour filter of the Hive resolver never     *)
(* drop a partition the overlap test would keep: with a non-null interval, *)
(* an hour= directory whose manifest lies within its own hour and overlaps *)
(* the interval is among the directories kept, in every time zone.         *)

C30_PruningKeepsOverlapping ==
  \A r \in DOMAIN req :
    (/\ Resolved(r) /\ Bounded(r) /\ Start(r) <= End(r)
     /\ req[r].found.path \in {"hive", "fallback"}) =>
      \A q \in HourDirsOf(r) :
        (WithinOwnHour(q) /\ Overlaps(ManifestOf(q), Start(r), End(r))) => Kept(r, q)

====
